---- MODULE Spec2Model ----
(***************************************************************************)
(* Indentation-based folding ranges: computeRanges of                      *)
(* src/vs/editor/common/model/indentRanges.ts, as a state machine that     *)
(* runs the backward pass one line per step, and as the function the       *)
(* steps compute.                                                          *)
(*                                                                         *)
(* A text model is a sequence of lines; a line is its indent level (-1 for *)
(* a whitespace-only line) and its content, a sequence of words.  An       *)
(* optional value (markers, markers.indent, a RegExp or null) is the empty *)
(* sequence when absent and a one-element sequence when present.           *)
(*                                                                         *)
(* Other parts of the workbench are modelled beside it, each under a       *)
(* specification of its own: WorkspaceEditingService.doEnterWorkspace      *)
(* (SpecEnter) and addFolders (SpecAddFolders), the searches of            *)
(* MainThreadWorkspace (SpecSearch), the workbench-state and folder        *)
(* handling of SettingsChangeRelauncher (SpecRelauncher) and its tracked   *)
(* settings (SpecSettings), the task detection of the jake extension       *)
(* (SpecJake), the progress runner of DebugViewlet (SpecDebugViewlet) and  *)
(* the panels of ViewsViewlet (SpecViewsViewlet).                          *)
(***************************************************************************)
EXTENDS Integers, Sequences, FiniteSets, TLC

(***************************************************************************)
(* Bounds of the checked inputs.                                           *)
(***************************************************************************)
\* longest model without fold markers
MaxLines == 5
\* deepest indent level of a line of a model without fold markers
MaxIndent == 2
\* largest minimumRangeSize
MaxMinimumRangeSize == 2
\* longest model with fold markers
MaxMarkerLines == 4
\* longest model of a repeated call, and the number of calls
MaxRepeatLines == 3
MaxCalls == 2
\* longest model of two interleaved calls
MaxPairLines == 3
\* calls of createAndEnterWorkspace / saveAndEnterWorkspace
MaxEnterCalls == 2
\* searches started, and the request ids they are started under
MaxSearches == 2
MaxRequestId == 2
\* workbench state changes, and listeners bound over a run
MaxStateChanges == 4
\* workspace-folder change events
MaxFolderChanges == 3
\* configuration-update events
MaxConfigurationUpdates == 2
\* folders of a workspace, folders of one addFolders call, and calls
MaxWorkspaceFolders == 2
MaxFoldersToAdd == 2
MaxAddFoldersCalls == 1
\* workspace folders of the jake extension, changes of one folder's
\* Jakefile, and workspace-folder events
MaxJakeFolders == 2
MaxJakefileVersion == 2
MaxFolderUpdates == 2
\* TaskDetector.getTasks() calls
MaxProvideCalls == 2
\* state changes of the debug service
MaxDebugStateChanges == 4
\* views of a viewlet, and the steps taken on it
MaxViews == 3
MaxViewletSteps == 5

VARIABLES
    model,              \* ITextModel: the lines of the buffer
    offSide,            \* boolean argument
    markers,            \* optional FoldMarkers argument
    minimumRangeSize,   \* number argument
    pc,                 \* "idle", "loop" (at the loop head), "done" (returned)
    pattern,            \* optional RegExp
    patternIndent,      \* number
    previousRegions,    \* PreviousRegion[], the last element is the top
    line,               \* loop variable
    result,             \* IndentRange[]; after the return, the returned array
    branch,             \* which branch the last iteration took
    returned,           \* the caller's record of the calls that returned
    indentQueries,      \* the line numbers this call passed to getIndentLevel
    contentQueries,     \* the line numbers this call passed to getLineContent
    before,             \* previousRegions as the last iteration found it
    other,              \* the locals of a second call on the same arguments
    workbenchState,     \* contextService.getWorkbenchState()
    enterCalls,         \* the doEnterWorkspace calls made, each with its position
    serviceCalls,       \* the calls doEnterWorkspace made on other services
    searches,           \* the search promises created by $startSearch
    activeSearches,     \* _activeSearches: request id -> search
    replies,            \* what the $startSearch / $cancelSearch calls returned
    onDidChangeWorkspaceFoldersUnbind,  \* the relauncher's field
    folderListeners,    \* listeners bound to onDidChangeWorkspaceFolders
    listenersBound,     \* number of listeners bound to it so far
    timeouts,           \* handleWorkbenchState runs deferred by setTimeout
    stateChanges,       \* number of workbench state changes so far
    firstFolderPath,    \* the relauncher's field: optional path
    restarterTimers,    \* pending timers of extensionHostRestarter
    scheduleCalls,      \* extensionHostRestarter.schedule() calls so far
    restartCalls,       \* extensionService.restartExtensionHost() calls so far
    folderChanges,      \* number of workspace-folder change events so far
    titleBarStyle,      \* the relauncher's four recorded settings, each
    nativeTabs,         \*   optional
    updateChannel,
    enableCrashReporter,
    focusQueries,       \* windowService.isFocused() promises not yet resolved
    confirms,           \* messageService.confirm dialogs shown so far
    relaunches,         \* windowsService.relaunch calls so far
    configurationUpdates, \* number of configuration-update events so far
    appQuality,         \* environmentService.appQuality
    isLinux,            \* the platform flag `contains` reads
    workspaceFolders,   \* contextService.getWorkspace().folders
    addFoldersCalls,    \* the addFolders calls made: argument and what was written
    jakefile,           \* folder -> version of its Jakefile on disk
    detectors,          \* TaskDetector.detectors: the folders with a FolderDetector
    folderPromise,      \* folder -> FolderDetector.promise: optional task list
    promise,            \* TaskDetector.promise: optional task lists of the folders
    taskProvider,       \* TaskDetector.taskProvider is registered
    provided,           \* what the TaskDetector.getTasks() calls returned
    folderUpdates,      \* number of workspace-folder events so far
    progressRunner,     \* DebugViewlet.progressRunner: optional runner
    runners,            \* per runner progressService.show returned: its done() calls
    debugStates,        \* the states the debug service changed to, in order
    viewsViewletPanels, \* ViewsViewlet.viewsViewletPanels: the visible panels
    viewsStates,        \* ViewsViewlet.viewsStates: view id -> optional state
    movePanelThrew,     \* the last movePanel call ended in a TypeError
    viewletSteps        \* number of steps taken on the viewlet so far

args == <<model, offSide, markers, minimumRangeSize>>
locals == <<pc, pattern, patternIndent, previousRegions, line, result, branch>>
history == <<indentQueries, contentQueries, before>>
folding == <<args, locals, returned, history, other>>
entering == <<enterCalls, serviceCalls>>
searching == <<searches, activeSearches, replies>>
restarting == <<firstFolderPath, restarterTimers, scheduleCalls, restartCalls,
                folderChanges>>
tracked == <<titleBarStyle, nativeTabs, updateChannel, enableCrashReporter>>
settings == <<tracked, focusQueries, confirms, relaunches, configurationUpdates>>
relauncher == <<onDidChangeWorkspaceFoldersUnbind, folderListeners,
                listenersBound, timeouts, stateChanges, restarting, settings>>
adding == <<appQuality, isLinux, workspaceFolders, addFoldersCalls>>
jake == <<jakefile, detectors, folderPromise, promise, taskProvider, provided,
          folderUpdates>>
debugViewlet == <<progressRunner, runners, debugStates>>
viewsViewlet == <<viewsViewletPanels, viewsStates, movePanelThrew, viewletSteps>>
parts == <<adding, jake, debugViewlet, viewsViewlet>>
workbench == <<workbenchState, entering, searching, relauncher, parts>>
vars == <<model, offSide, markers, minimumRangeSize, pc, pattern,
          patternIndent, previousRegions, line, result, branch, returned,
          indentQueries, contentQueries, before, other, workbenchState,
          enterCalls, serviceCalls, searches, activeSearches, replies,
          onDidChangeWorkspaceFoldersUnbind, folderListeners, listenersBound,
          timeouts, stateChanges, firstFolderPath, restarterTimers,
          scheduleCalls, restartCalls, folderChanges, titleBarStyle,
          nativeTabs, updateChannel, enableCrashReporter, focusQueries,
          confirms, relaunches, configurationUpdates, appQuality, isLinux,
          workspaceFolders, addFoldersCalls, jakefile, detectors,
          folderPromise, promise, taskProvider, provided, folderUpdates,
          progressRunner, runners, debugStates, viewsViewletPanels,
          viewsStates, movePanelThrew, viewletSteps>>

(***************************************************************************)
(* Values.                                                                 *)
(***************************************************************************)
Null == <<>>

IndentRange(startLineNumber, endLineNumber, indent, marker) ==
    [startLineNumber |-> startLineNumber, endLineNumber |-> endLineNumber,
     indent |-> indent, marker |-> marker]

\* an omitted `marker` argument leaves the field undefined, which is falsy
MarkerOmitted == FALSE

PreviousRegion(indent, ln, marker) ==
    [indent |-> indent, line |-> ln, marker |-> marker]

Line(indent, content) == [indent |-> indent, content |-> content]

(***************************************************************************)
(* The text model the function reads.                                      *)
(***************************************************************************)
getLineCount(mdl) == Len(mdl)

getIndentLevel(mdl, ln) == mdl[ln].indent

getLineContent(mdl, ln) == mdl[ln].content

\* the model throws for a line number outside [1, getLineCount()]
ValidLineNumber(mdl, ln) == ln \in 1..getLineCount(mdl)

(***************************************************************************)
(* Stack helpers: the array is used as a stack, the top is the last        *)
(* element.                                                                *)
(***************************************************************************)
Top(regions) == regions[Len(regions)]

Pop(regions) == SubSeq(regions, 1, Len(regions) - 1)

Push(regions, r) == Append(regions, r)

SetTop(regions, r) == [regions EXCEPT ![Len(regions)] = r]

RECURSIVE Reverse(_)
Reverse(s) == IF s = <<>> THEN <<>> ELSE Append(Reverse(Tail(s)), Head(s))

(***************************************************************************)
(* The marker pattern: new RegExp(`(${start})|(?:${end})`), and            *)
(* String.match with it.  A content is a sequence of words; the pattern    *)
(* matches at the leftmost word that is the start or the end text, and     *)
(* group 1 is set when that word is the start text.                        *)
(***************************************************************************)
CompilePattern(mks) ==
    IF mks # Null THEN <<[start |-> mks[1].start, end |-> mks[1].end]>> ELSE Null

PatternIndent(mks) ==
    IF mks # Null /\ mks[1].indent # Null THEN mks[1].indent[1] ELSE -1

RECURSIVE MatchFrom(_, _, _)
MatchFrom(content, re, i) ==
    IF i > Len(content) THEN "null"
    ELSE IF content[i] = re.start THEN "start"
    ELSE IF content[i] = re.end THEN "end"
    ELSE MatchFrom(content, re, i + 1)

Match(content, re) == MatchFrom(content, re, 1)

(***************************************************************************)
(* The local state of one call: [line, previousRegions, result, branch].   *)
(***************************************************************************)
Frame(ln, regions, res, br) ==
    [line |-> ln, previousRegions |-> regions, result |-> res, branch |-> br]

\* a sentinel one line too far down
SentinelTooLow(mdl) == PreviousRegion(-1, getLineCount(mdl) + 2, Null)

Sentinel(mdl) == PreviousRegion(-1, getLineCount(mdl) + 1, Null)

InitialFrame(mdl) == Frame(getLineCount(mdl), <<Sentinel(mdl)>>, <<>>, "none")

\* the branch taken with the pattern tried at every indent
BranchIgnoringPatternIndent(mdl, re, reIndent, ln) ==
    LET indent == getIndentLevel(mdl, ln) IN
    IF indent = -1 THEN "whitespace"
    ELSE IF re # Null /\ Match(getLineContent(mdl, ln), re[1]) # "null"
         THEN IF Match(getLineContent(mdl, ln), re[1]) = "start"
              THEN "start" ELSE "end"
         ELSE "indent"

\* which branch of the loop body the line takes
Branch(mdl, re, reIndent, ln) ==
    LET indent == getIndentLevel(mdl, ln) IN
    IF indent = -1 THEN "whitespace"
    ELSE IF re # Null /\ (reIndent = -1 \/ reIndent = indent)
            /\ Match(getLineContent(mdl, ln), re[1]) # "null"
         THEN IF Match(getLineContent(mdl, ln), re[1]) = "start"
              THEN "start" ELSE "end"
         ELSE "indent"

\* the whitespace-only line skipped whatever offSide is
WhitespaceBodyIgnoringOffSide(off, f) ==
    Frame(f.line - 1, f.previousRegions, f.result, "whitespace")

\* the whitespace-only line continuing without the loop's decrement
WhitespaceBodyWithoutDecrement(off, f) ==
    LET previous == Top(f.previousRegions) IN
    Frame(f.line,
          IF off THEN SetTop(f.previousRegions, [previous EXCEPT !.line = f.line])
                 ELSE f.previousRegions,
          f.result, "whitespace")

\* the whitespace-only line moving the top region whatever offSide is (the
\* offSide test left out)
WhitespaceBodyWithoutOffSideTest(off, f) ==
    LET previous == Top(f.previousRegions) IN
    Frame(f.line - 1,
          SetTop(f.previousRegions, [previous EXCEPT !.line = f.line]),
          f.result, "whitespace")

\* indent === -1
WhitespaceBody(off, f) ==
    LET previous == Top(f.previousRegions) IN
    Frame(f.line - 1,
          IF off THEN SetTop(f.previousRegions, [previous EXCEPT !.line = f.line])
                 ELSE f.previousRegions,
          f.result, "whitespace")

\* the discard loop run once only
DiscardOnce(regions) == Pop(regions)

\* do { pop } while (previous.indent >= 0 && !previous.marker)
RECURSIVE DiscardUntilPattern(_)
DiscardUntilPattern(regions) ==
    LET popped == Pop(regions) IN
    IF Top(popped).indent >= 0 /\ Top(popped).marker = Null
    THEN DiscardUntilPattern(popped) ELSE popped

\* the start pattern match without the test that the region found holds an
\* end marker
StartBodyConvertingAnyTop(mdl, f) ==
    LET indent == getIndentLevel(mdl, f.line)
        regions == IF Top(f.previousRegions).indent >= 0
                      /\ Top(f.previousRegions).marker = Null
                   THEN DiscardUntilPattern(f.previousRegions)
                   ELSE f.previousRegions
        previous == Top(regions)
    IN  Frame(f.line - 1,
              SetTop(regions, PreviousRegion(indent, f.line, Null)),
              Append(f.result, IndentRange(f.line, previous.line, indent, TRUE)),
              "start")

\* the start pattern match giving the range the indent of the region it
\* closes
StartBodyWithRegionIndent(mdl, f) ==
    LET indent == getIndentLevel(mdl, f.line)
        regions == IF Top(f.previousRegions).indent >= 0
                      /\ Top(f.previousRegions).marker = Null
                   THEN DiscardUntilPattern(f.previousRegions)
                   ELSE f.previousRegions
        previous == Top(regions)
    IN  IF previous.marker # Null
        THEN Frame(f.line - 1,
                   SetTop(regions, PreviousRegion(indent, f.line, Null)),
                   Append(f.result,
                          IndentRange(f.line, previous.line, previous.indent, TRUE)),
                   "start")
        ELSE Frame(f.line - 1, regions, f.result, "start")

\* the start pattern match leaving the closed region's line at the end
\* marker (previous.line = line left out)
StartBodyKeepingRegionLine(mdl, f) ==
    LET indent == getIndentLevel(mdl, f.line)
        regions == IF Top(f.previousRegions).indent >= 0
                      /\ Top(f.previousRegions).marker = Null
                   THEN DiscardUntilPattern(f.previousRegions)
                   ELSE f.previousRegions
        previous == Top(regions)
    IN  IF previous.marker # Null
        THEN Frame(f.line - 1,
                   SetTop(regions, PreviousRegion(indent, previous.line, Null)),
                   Append(f.result, IndentRange(f.line, previous.line, indent, TRUE)),
                   "start")
        ELSE Frame(f.line - 1, regions, f.result, "start")

\* the start pattern match without the discard loop
StartBodyWithoutDiscard(mdl, f) ==
    LET indent == getIndentLevel(mdl, f.line)
        regions == f.previousRegions
        previous == Top(regions)
    IN  IF previous.marker # Null
        THEN Frame(f.line - 1,
                   SetTop(regions, PreviousRegion(indent, f.line, Null)),
                   Append(f.result, IndentRange(f.line, previous.line, indent, TRUE)),
                   "start")
        ELSE Frame(f.line - 1, regions, f.result, "start")

\* the start pattern match leaving the marker of the region it closes in
\* place (previous.marker = null left out)
StartBodyKeepingMarker(mdl, f) ==
    LET indent == getIndentLevel(mdl, f.line)
        regions == IF Top(f.previousRegions).indent >= 0
                      /\ Top(f.previousRegions).marker = Null
                   THEN DiscardUntilPattern(f.previousRegions)
                   ELSE f.previousRegions
        previous == Top(regions)
    IN  IF previous.marker # Null
        THEN Frame(f.line - 1,
                   SetTop(regions, PreviousRegion(indent, f.line, previous.marker)),
                   Append(f.result, IndentRange(f.line, previous.line, indent, TRUE)),
                   "start")
        ELSE Frame(f.line - 1, regions, f.result, "start")

\* start pattern match
StartBody(mdl, f) ==
    LET indent == getIndentLevel(mdl, f.line)
        regions == IF Top(f.previousRegions).indent >= 0
                      /\ Top(f.previousRegions).marker = Null
                   THEN DiscardUntilPattern(f.previousRegions)
                   ELSE f.previousRegions
        previous == Top(regions)
    IN  IF previous.marker # Null
        THEN Frame(f.line - 1,
                   SetTop(regions, PreviousRegion(indent, f.line, Null)),
                   Append(f.result, IndentRange(f.line, previous.line, indent, TRUE)),
                   "start")
        ELSE Frame(f.line - 1, regions, f.result, "start")

\* end pattern match
EndBody(re, f) ==
    Frame(f.line - 1,
          Push(f.previousRegions, PreviousRegion(-2, f.line, re)),
          f.result, "end")

\* the indent comparison letting equal indents through
LargerOrEqualIndent(previous, indent) == previous.indent >= indent

\* the indent comparison also true of a region that awaits its start marker
LargerIndentOrAwaiting(previous, indent) ==
    previous.indent > indent \/ previous.marker # Null

\* previous.indent > indent
LargerIndent(previous, indent) == previous.indent > indent

\* the pop loop run once only
DiscardLargerOnce(regions, indent) == Pop(regions)

\* do { pop } while (previous.indent > indent)
RECURSIVE DiscardLarger(_, _)
DiscardLarger(regions, indent) ==
    LET popped == Pop(regions) IN
    IF LargerIndent(Top(popped), indent) THEN DiscardLarger(popped, indent) ELSE popped

\* the size test counting the lines of the range instead of its span
LargeEnoughCountingLines(endLineNumber, ln, minSize) ==
    endLineNumber - ln + 1 >= minSize

\* endLineNumber - line >= minimumRangeSize
LargeEnough(endLineNumber, ln, minSize) == endLineNumber - ln >= minSize

\* the plain indentation line with the size test skipping the rest of the
\* iteration (a `continue` for a range that is too small)
IndentBodySkippingSmall(mdl, minSize, f) ==
    LET indent == getIndentLevel(mdl, f.line)
        larger == LargerIndent(Top(f.previousRegions), indent)
        regions == IF larger THEN DiscardLarger(f.previousRegions, indent)
                             ELSE f.previousRegions
        previous == Top(regions)
        endLineNumber == previous.line - 1
    IN  IF larger /\ ~LargeEnough(endLineNumber, f.line, minSize)
        THEN Frame(f.line - 1, regions, f.result, "indent")
        ELSE Frame(f.line - 1,
                   IF previous.indent = indent
                   THEN SetTop(regions, [previous EXCEPT !.line = f.line])
                   ELSE Push(regions, PreviousRegion(indent, f.line, Null)),
                   IF larger
                   THEN Append(f.result,
                               IndentRange(f.line, endLineNumber, indent, MarkerOmitted))
                   ELSE f.result,
                   "indent")

\* the plain indentation line with the range ended by the region popped
\* first instead of the region left on top
IndentBodyEndAtPopped(mdl, minSize, f) ==
    LET indent == getIndentLevel(mdl, f.line)
        larger == LargerIndent(Top(f.previousRegions), indent)
        regions == IF larger THEN DiscardLarger(f.previousRegions, indent)
                             ELSE f.previousRegions
        previous == Top(regions)
        endLineNumber == Top(f.previousRegions).line - 1
        res == IF larger /\ LargeEnough(endLineNumber, f.line, minSize)
               THEN Append(f.result,
                           IndentRange(f.line, endLineNumber, indent, MarkerOmitted))
               ELSE f.result
    IN  Frame(f.line - 1,
              IF previous.indent = indent
              THEN SetTop(regions, [previous EXCEPT !.line = f.line])
              ELSE Push(regions, PreviousRegion(indent, f.line, Null)),
              res, "indent")

\* one range per region the pop loop removes, each ended by the line before
\* the popped region's line and carrying its indent
RECURSIVE RangesPerPopped(_, _, _, _)
RangesPerPopped(regions, ln, indent, minSize) ==
    IF LargerIndent(Top(regions), indent)
    THEN (IF LargeEnough(Top(regions).line - 1, ln, minSize)
          THEN <<IndentRange(ln, Top(regions).line - 1, Top(regions).indent,
                             MarkerOmitted)>>
          ELSE <<>>)
         \o RangesPerPopped(Pop(regions), ln, indent, minSize)
    ELSE <<>>

\* the plain indentation line emitting inside the pop loop, once per popped
\* region
IndentBodyRangePerPopped(mdl, minSize, f) ==
    LET indent == getIndentLevel(mdl, f.line)
        larger == LargerIndent(Top(f.previousRegions), indent)
        regions == IF larger THEN DiscardLarger(f.previousRegions, indent)
                             ELSE f.previousRegions
        previous == Top(regions)
    IN  Frame(f.line - 1,
              IF previous.indent = indent
              THEN SetTop(regions, [previous EXCEPT !.line = f.line])
              ELSE Push(regions, PreviousRegion(indent, f.line, Null)),
              f.result \o RangesPerPopped(f.previousRegions, f.line, indent, minSize),
              "indent")

\* the plain indentation line pushing a region of its own also where the
\* top region has its indent
IndentBodyPushingAtEqualIndent(mdl, minSize, f) ==
    LET indent == getIndentLevel(mdl, f.line)
        larger == LargerIndent(Top(f.previousRegions), indent)
        regions == IF larger THEN DiscardLarger(f.previousRegions, indent)
                             ELSE f.previousRegions
        previous == Top(regions)
        endLineNumber == previous.line - 1
        res == IF larger /\ LargeEnough(endLineNumber, f.line, minSize)
               THEN Append(f.result,
                           IndentRange(f.line, endLineNumber, indent, MarkerOmitted))
               ELSE f.result
    IN  Frame(f.line - 1,
              Push(regions, PreviousRegion(indent, f.line, Null)),
              res, "indent")

\* the plain indentation line leaving the line of a region of equal indent
\* where it was (previous.line = line left out)
IndentBodyKeepingLineAtEqualIndent(mdl, minSize, f) ==
    LET indent == getIndentLevel(mdl, f.line)
        larger == LargerIndent(Top(f.previousRegions), indent)
        regions == IF larger THEN DiscardLarger(f.previousRegions, indent)
                             ELSE f.previousRegions
        previous == Top(regions)
        endLineNumber == previous.line - 1
        res == IF larger /\ LargeEnough(endLineNumber, f.line, minSize)
               THEN Append(f.result,
                           IndentRange(f.line, endLineNumber, indent, MarkerOmitted))
               ELSE f.result
    IN  Frame(f.line - 1,
              IF previous.indent = indent
              THEN regions
              ELSE Push(regions, PreviousRegion(indent, f.line, Null)),
              res, "indent")

\* plain indentation line
IndentBody(mdl, minSize, f) ==
    LET indent == getIndentLevel(mdl, f.line)
        larger == LargerIndent(Top(f.previousRegions), indent)
        regions == IF larger THEN DiscardLarger(f.previousRegions, indent)
                             ELSE f.previousRegions
        previous == Top(regions)
        endLineNumber == previous.line - 1
        res == IF larger /\ LargeEnough(endLineNumber, f.line, minSize)
               THEN Append(f.result,
                           IndentRange(f.line, endLineNumber, indent, MarkerOmitted))
               ELSE f.result
    IN  Frame(f.line - 1,
              IF previous.indent = indent
              THEN SetTop(regions, [previous EXCEPT !.line = f.line])
              ELSE Push(regions, PreviousRegion(indent, f.line, Null)),
              res, "indent")

\* the loop body with the offSide assignment ahead of the whitespace test, so
\* that it runs on every line
LoopBodyOffSideOnEveryLine(mdl, off, re, reIndent, minSize, f) ==
    LET b == Branch(mdl, re, reIndent, f.line)
        previous == Top(f.previousRegions)
        g == IF off
             THEN [f EXCEPT !.previousRegions =
                       SetTop(f.previousRegions, [previous EXCEPT !.line = f.line])]
             ELSE f
    IN  CASE b = "whitespace" -> WhitespaceBody(off, g)
          [] b = "start" -> StartBody(mdl, g)
          [] b = "end" -> EndBody(re, g)
          [] b = "indent" -> IndentBody(mdl, minSize, g)

\* one iteration of the for loop
LoopBody(mdl, off, re, reIndent, minSize, f) ==
    LET b == Branch(mdl, re, reIndent, f.line) IN
    CASE b = "whitespace" -> WhitespaceBody(off, f)
      [] b = "start" -> StartBody(mdl, f)
      [] b = "end" -> EndBody(re, f)
      [] b = "indent" -> IndentBody(mdl, minSize, f)

\* the loop condition letting line 0 through
LoopConditionFromZero(ln) == ln >= 0

\* line > 0
LoopCondition(ln) == ln > 0

\* whether the iteration on line ln evaluates getLineContent(ln): the
\* whitespace-only line continues before, and && stops at a false operand
ReadsContent(mdl, re, reIndent, ln) ==
    LET indent == getIndentLevel(mdl, ln) IN
    indent # -1 /\ re # Null /\ (reIndent = -1 \/ reIndent = indent)

RECURSIVE Loop(_, _, _, _, _, _)
Loop(mdl, off, re, reIndent, minSize, f) ==
    IF LoopCondition(f.line)
    THEN Loop(mdl, off, re, reIndent, minSize,
              LoopBody(mdl, off, re, reIndent, minSize, f))
    ELSE f

\* the result returned in the order it was built
ReturnedUnreversed(res) == res

\* return result.reverse()
Returned(res) == Reverse(res)

\* the function the call computes
computeRanges(mdl, off, mks, minSize) ==
    Returned(Loop(mdl, off, CompilePattern(mks), PatternIndent(mks), minSize,
                  InitialFrame(mdl)).result)

(***************************************************************************)
(* Inputs.                                                                 *)
(***************************************************************************)
SeqsUpTo(S, n) == UNION {[1..k -> S] : k \in 0..n}

WhitespaceLine == Line(-1, <<>>)

StartText == "#region"

EndText == "#endregion"

\* lines of a model without markers: whitespace-only, or code at some indent
PlainLines == {WhitespaceLine} \cup {Line(i, <<"code">>) : i \in 0..MaxIndent}

MarkerIndents == {0, 1}

\* lines of a model with markers
MarkedLines ==
    {WhitespaceLine}
    \cup {Line(i, <<w>>) : i \in MarkerIndents, w \in {"code", StartText, EndText}}

FoldMarkers(indent) == [start |-> StartText, end |-> EndText, indent |-> indent]

MarkerConfigs == {<<FoldMarkers(Null)>>} \cup {<<FoldMarkers(<<k>>)>> : k \in MarkerIndents}

InitPlain ==
    /\ markers = Null
    /\ model \in SeqsUpTo(PlainLines, MaxLines)
    /\ minimumRangeSize \in 0..MaxMinimumRangeSize

\* with markers: no size filter, or a filter of one line
MarkedMinimumRangeSizes == {0, 1}

InitMarked ==
    /\ markers \in MarkerConfigs
    /\ model \in SeqsUpTo(MarkedLines, MaxMarkerLines)
    /\ minimumRangeSize \in MarkedMinimumRangeSizes

\* a call not yet made
OtherIdle ==
    [pc |-> "idle", pattern |-> Null, patternIndent |-> -1, previousRegions |-> <<>>,
     line |-> 0, result |-> <<>>, branch |-> "none"]

\* the workbench services before anything was asked of them
EnterIdle == enterCalls = <<>> /\ serviceCalls = <<>>

RequestIds == 1..MaxRequestId

\* the relauncher constructed on a configuration without a tracked setting
SettingsIdle ==
    /\ titleBarStyle = Null
    /\ nativeTabs = Null
    /\ updateChannel = Null
    /\ enableCrashReporter = Null
    /\ focusQueries = 0
    /\ confirms = 0
    /\ relaunches = 0
    /\ configurationUpdates = 0

\* Object.create(null): no request id has an entry
NoActiveSearches == [id \in RequestIds |-> Null]

SearchIdle ==
    /\ searches = <<>>
    /\ activeSearches = NoActiveSearches
    /\ replies = <<>>

\* the relauncher with no listener bound, no folder and nothing scheduled
ListeningIdle ==
    /\ onDidChangeWorkspaceFoldersUnbind = Null
    /\ folderListeners = {}
    /\ listenersBound = 0
    /\ timeouts = 0
    /\ stateChanges = 0
    /\ firstFolderPath = Null
    /\ restarterTimers = 0
    /\ scheduleCalls = 0
    /\ restartCalls = 0
    /\ folderChanges = 0

RelauncherIdle == ListeningIdle /\ SettingsIdle

\* no addFolders call made, in a stable build without a workspace
AddingIdle ==
    /\ appQuality = "stable"
    /\ isLinux = TRUE
    /\ workspaceFolders = <<>>
    /\ addFoldersCalls = <<>>

JakeFolders == 1..MaxJakeFolders

\* the jake extension activated in a window without folders
JakeIdle ==
    /\ jakefile = [folder \in JakeFolders |-> 0]
    /\ detectors = {}
    /\ folderPromise = [folder \in JakeFolders |-> Null]
    /\ promise = Null
    /\ taskProvider = FALSE
    /\ provided = <<>>
    /\ folderUpdates = 0

\* the DebugViewlet as its constructor leaves it
DebugViewletIdle ==
    /\ progressRunner = Null
    /\ runners = <<>>
    /\ debugStates = <<>>

Views == 1..MaxViews

\* a ViewsViewlet without panels and without view states
ViewsViewletIdle ==
    /\ viewsViewletPanels = <<>>
    /\ viewsStates = [id \in Views |-> Null]
    /\ movePanelThrew = FALSE
    /\ viewletSteps = 0

PartsIdle == AddingIdle /\ JakeIdle /\ DebugViewletIdle /\ ViewsViewletIdle

Init ==
    /\ InitPlain \/ InitMarked
    /\ workbenchState = "EMPTY"
    /\ EnterIdle
    /\ SearchIdle
    /\ RelauncherIdle
    /\ PartsIdle
    /\ offSide \in BOOLEAN
    /\ pc = "idle"
    /\ pattern = Null
    /\ patternIndent = -1
    /\ previousRegions = <<>>
    /\ line = 0
    /\ result = <<>>
    /\ branch = "none"
    /\ returned = <<>>
    /\ indentQueries = <<>>
    /\ contentQueries = <<>>
    /\ before = <<>>
    /\ other = OtherIdle

(***************************************************************************)
(* Actions.                                                                *)
(***************************************************************************)
\* entry with `result` kept from the call before, as a variable outside the
\* function would be
EnterWithStaleResult ==
    /\ pc' = "loop"
    /\ pattern' = CompilePattern(markers)
    /\ patternIndent' = PatternIndent(markers)
    /\ previousRegions' = InitialFrame(model).previousRegions
    /\ line' = InitialFrame(model).line
    /\ result' = result
    /\ branch' = InitialFrame(model).branch
    /\ indentQueries' = <<>>
    /\ contentQueries' = <<>>
    /\ before' = <<>>
    /\ UNCHANGED <<workbench, args, returned, other>>

\* the function's entry, up to the loop head
Enter ==
    /\ pc' = "loop"
    /\ pattern' = CompilePattern(markers)
    /\ patternIndent' = PatternIndent(markers)
    /\ previousRegions' = InitialFrame(model).previousRegions
    /\ line' = InitialFrame(model).line
    /\ result' = InitialFrame(model).result
    /\ branch' = InitialFrame(model).branch
    /\ indentQueries' = <<>>
    /\ contentQueries' = <<>>
    /\ before' = <<>>
    /\ UNCHANGED <<workbench, args, returned, other>>

\* the call
Call == pc = "idle" /\ Enter

\* a further call with the same arguments, after the one before returned
CallAgain == pc = "done" /\ Len(returned) < MaxCalls /\ Enter

\* one iteration of the loop, taking branch b; getIndentLevel is the first
\* thing it evaluates, and a line number the model does not have makes the
\* call throw before any branch is taken
Iterate(b) ==
    /\ pc = "loop"
    /\ LoopCondition(line)
    /\ indentQueries' = Append(indentQueries, line)
    /\ IF ValidLineNumber(model, line)
       THEN /\ Branch(model, pattern, patternIndent, line) = b
            /\ LET f == LoopBody(model, offSide, pattern, patternIndent,
                                 minimumRangeSize,
                                 Frame(line, previousRegions, result, branch))
               IN  /\ line' = f.line
                   /\ previousRegions' = f.previousRegions
                   /\ result' = f.result
                   /\ branch' = f.branch
            /\ contentQueries' =
                   IF ReadsContent(model, pattern, patternIndent, line)
                   THEN Append(contentQueries, line) ELSE contentQueries
            /\ before' = previousRegions
            /\ pc' = pc
       ELSE /\ pc' = "threw"
            /\ UNCHANGED <<previousRegions, line, result, branch, contentQueries,
                           before>>
    /\ UNCHANGED <<workbench, args, pattern, patternIndent, returned, other>>

WhitespaceIteration == Iterate("whitespace")

StartIteration == Iterate("start")

EndIteration == Iterate("end")

IndentIteration == Iterate("indent")

\* the loop ends and the reversed result is returned
Return ==
    /\ pc = "loop"
    /\ ~LoopCondition(line)
    /\ pc' = "done"
    /\ result' = Returned(result)
    /\ returned' = Append(returned, [args |-> args, result |-> Returned(result)])
    /\ UNCHANGED <<workbench, args, pattern, patternIndent, previousRegions, line, branch,
                   history, other>>

Next ==
    \/ Call
    \/ WhitespaceIteration
    \/ StartIteration
    \/ EndIteration
    \/ IndentIteration
    \/ Return

Spec == Init /\ [][Next]_vars

\* the same call made MaxCalls times in a row on short models
InitRepeat == Init /\ Len(model) <= MaxRepeatLines

NextRepeat == Next \/ CallAgain

SpecRepeat == InitRepeat /\ [][NextRepeat]_vars

(***************************************************************************)
(* A second call on the same arguments, its steps interleaved with the     *)
(* first call's.  Its locals are the record `other`.                       *)
(***************************************************************************)
\* the second call's frame reading the first call's result array
OtherFrameSharingResult ==
    Frame(other.line, other.previousRegions, result, other.branch)

OtherFrame == Frame(other.line, other.previousRegions, other.result, other.branch)

OtherCall ==
    /\ other.pc = "idle"
    /\ other' = [pc |-> "loop",
                 pattern |-> CompilePattern(markers),
                 patternIndent |-> PatternIndent(markers),
                 previousRegions |-> InitialFrame(model).previousRegions,
                 line |-> InitialFrame(model).line,
                 result |-> InitialFrame(model).result,
                 branch |-> InitialFrame(model).branch]
    /\ UNCHANGED <<workbench, args, locals, returned, history>>

OtherIterate ==
    /\ other.pc = "loop"
    /\ LoopCondition(other.line)
    /\ LET f == LoopBody(model, offSide, other.pattern, other.patternIndent,
                         minimumRangeSize, OtherFrame)
       IN  other' = [other EXCEPT !.line = f.line,
                                  !.previousRegions = f.previousRegions,
                                  !.result = f.result,
                                  !.branch = f.branch]
    /\ UNCHANGED <<workbench, args, locals, returned, history>>

OtherReturn ==
    /\ other.pc = "loop"
    /\ ~LoopCondition(other.line)
    /\ other' = [other EXCEPT !.pc = "done", !.result = Returned(other.result)]
    /\ UNCHANGED <<workbench, args, locals, returned, history>>

InitPair == Init /\ Len(model) <= MaxPairLines

NextPair == Next \/ OtherCall \/ OtherIterate \/ OtherReturn

SpecPair == InitPair /\ [][NextPair]_vars

(***************************************************************************)
(* WorkspaceEditingService.createAndEnterWorkspace / saveAndEnterWorkspace *)
(* (workspaceEditingService.ts).  A call is a promise chain; each action   *)
(* is one synchronous stretch of it: the call itself, or the callback run  *)
(* when the promise it waits for settles.  serviceCalls[c] records, in     *)
(* order, the calls that call c made on other services and the             *)
(* settlements it observed.                                                *)
(***************************************************************************)
WorkbenchStates == {"EMPTY", "FOLDER", "WORKSPACE"}

EnterCall(method, at, res, writing) ==
    [method |-> method, pc |-> at, result |-> res, writing |-> writing]

\* call c goes on with ops
Did(c, ops) == [serviceCalls EXCEPT ![c] = @ \o ops]

\* the main-side request issued before the extension host is stopped
EnterFirstRequesting(method) == <<method, "stopExtensionHost">>

\* this.extensionService.stopExtensionHost(); mainSidePromise()
EnterFirst(method) == <<"stopExtensionHost", method>>

\* doEnterWorkspace up to the promise of the main side
doEnterWorkspace(method) ==
    /\ Len(enterCalls) < MaxEnterCalls
    /\ serviceCalls' = Append(serviceCalls, EnterFirst(method))
    /\ enterCalls' = Append(enterCalls, EnterCall(method, "mainSide", Null, FALSE))
    /\ UNCHANGED <<folding, parts, workbenchState, searching, relauncher>>

createAndEnterWorkspace == doEnterWorkspace("createAndEnterWorkspace")

saveAndEnterWorkspace == doEnterWorkspace("saveAndEnterWorkspace")

\* migrateConfiguration: a settings write only when a folder is opened
migrateConfiguration(state) ==
    IF state # "FOLDER" THEN <<>> ELSE <<"jsonEditingService.write">>

\* migrate: the storage synchronously, then the configuration
migrate(state) ==
    <<"migrateStorage", "migrateConfiguration">> \o migrateConfiguration(state)

\* the results the main side resolves with: none, or a workspace
EnterResults == {Null, <<"workspace">>}

\* the callback of mainSidePromise().then(...)
MainSideResolves(c, res) ==
    /\ c \in 1..Len(enterCalls)
    /\ enterCalls[c].pc = "mainSide"
    /\ IF res # Null
       THEN /\ serviceCalls' = Did(c, <<"resolved">> \o migrate(workbenchState))
            /\ enterCalls' = [enterCalls EXCEPT ![c] =
                   EnterCall(@.method, "migrate", res, workbenchState = "FOLDER")]
       ELSE /\ serviceCalls' = Did(c, <<"resolved">>)
            /\ enterCalls' = [enterCalls EXCEPT ![c].pc = "start"]
    /\ UNCHANGED <<folding, parts, workbenchState, searching, relauncher>>

\* a rejection: no callback of the chain is registered for it
Rejects(c, at) ==
    /\ c \in 1..Len(enterCalls)
    /\ enterCalls[c].pc = at
    /\ serviceCalls' = Did(c, <<"rejected">>)
    /\ enterCalls' = [enterCalls EXCEPT ![c].pc = "rejected"]
    /\ UNCHANGED <<folding, parts, workbenchState, searching, relauncher>>

MainSideRejects(c) == Rejects(c, "mainSide")

\* the extension host started as soon as the migration is through, ahead of
\* the two initialize calls
AfterMigrateStartingFirst ==
    <<"migrated", "startExtensionHost", "backupFileService.initialize",
      "workspaceImpl.initialize">>

\* the callback of this.migrate(...).then(...)
AfterMigrate ==
    <<"migrated", "backupFileService.initialize", "workspaceImpl.initialize">>

MigrateResolves(c) ==
    /\ c \in 1..Len(enterCalls)
    /\ enterCalls[c].pc = "migrate"
    /\ serviceCalls' = Did(c, AfterMigrate)
    /\ enterCalls' = [enterCalls EXCEPT ![c].pc = "initialize"]
    /\ UNCHANGED <<folding, parts, workbenchState, searching, relauncher>>

\* the settings write fails; without a write migrate returns a resolved
\* promise
MigrateRejects(c) ==
    /\ c \in 1..Len(enterCalls)
    /\ enterCalls[c].writing
    /\ Rejects(c, "migrate")

\* workspaceImpl.initialize resolves: enterWorkspacePromise is fulfilled.
\* What initialize makes of the workbench state is not this file's code:
\* any state may follow.
InitializeResolves(c) ==
    /\ c \in 1..Len(enterCalls)
    /\ enterCalls[c].pc = "initialize"
    /\ serviceCalls' = Did(c, <<"initialized">>)
    /\ enterCalls' = [enterCalls EXCEPT ![c].pc = "start"]
    /\ workbenchState' \in WorkbenchStates
    /\ UNCHANGED <<folding, parts, searching, relauncher>>

InitializeRejects(c) == Rejects(c, "initialize")

\* enterWorkspacePromise.then(() => this.extensionService.startExtensionHost())
StartExtensionHost(c) ==
    /\ c \in 1..Len(enterCalls)
    /\ enterCalls[c].pc = "start"
    /\ serviceCalls' = Did(c, <<"startExtensionHost">>)
    /\ enterCalls' = [enterCalls EXCEPT ![c].pc = "done"]
    /\ UNCHANGED <<folding, parts, workbenchState, searching, relauncher>>

\* the folding variables at rest
FoldingIdle ==
    /\ model = <<>>
    /\ offSide = FALSE
    /\ markers = Null
    /\ minimumRangeSize = 1
    /\ pc = "idle"
    /\ pattern = Null
    /\ patternIndent = -1
    /\ previousRegions = <<>>
    /\ line = 0
    /\ result = <<>>
    /\ branch = "none"
    /\ returned = <<>>
    /\ indentQueries = <<>>
    /\ contentQueries = <<>>
    /\ before = <<>>
    /\ other = OtherIdle

InitEnter ==
    /\ FoldingIdle
    /\ workbenchState \in WorkbenchStates
    /\ EnterIdle
    /\ SearchIdle
    /\ RelauncherIdle
    /\ PartsIdle

NextEnter ==
    \/ createAndEnterWorkspace
    \/ saveAndEnterWorkspace
    \/ \E c \in 1..MaxEnterCalls :
           \/ \E res \in EnterResults : MainSideResolves(c, res)
           \/ MainSideRejects(c)
           \/ MigrateResolves(c)
           \/ MigrateRejects(c)
           \/ InitializeResolves(c)
           \/ InitializeRejects(c)
           \/ StartExtensionHost(c)

SpecEnter == InitEnter /\ [][NextEnter]_vars

(***************************************************************************)
(* The searches of MainThreadWorkspace (mainThreadWorkspace.ts).  A search *)
(* is the promise $startSearch creates; it is running until it completes,  *)
(* fails or is cancelled, and its onDone callback runs when it settles.    *)
(***************************************************************************)
Search(requestId, state) == [requestId |-> requestId, state |-> state]

Reply(op, requestId, value) == [op |-> op, requestId |-> requestId, value |-> value]

Calls(op) == {i \in 1..Len(replies) : replies[i].op = op}

\* const onDone = () => delete this._activeSearches[requestId]
onDone(active, requestId) == [active EXCEPT ![requestId] = Null]

\* search.cancel(): a running search settles as cancelled
Cancel(all, k) ==
    IF all[k].state = "running" THEN [all EXCEPT ![k].state = "cancelled"] ELSE all

\* $startSearch; hasFolders is workspace.folders.length read at the call
startSearch(requestId, hasFolders) ==
    /\ Cardinality(Calls("$startSearch")) < MaxSearches
    /\ IF ~hasFolders
       THEN /\ replies' = Append(replies, Reply("$startSearch", requestId, Null))
            /\ UNCHANGED <<searches, activeSearches>>
       ELSE /\ searches' = Append(searches, Search(requestId, "running"))
            /\ activeSearches' =
                   [activeSearches EXCEPT ![requestId] = <<Len(searches) + 1>>]
            /\ replies' = Append(replies, Reply("$startSearch", requestId,
                                                <<Len(searches) + 1>>))
    /\ UNCHANGED <<folding, parts, workbenchState, entering, relauncher>>

\* the search service's promise settles: search.done(onDone, onDone)
SearchSettles(k, state) ==
    /\ k \in 1..Len(searches)
    /\ searches[k].state = "running"
    /\ searches' = [searches EXCEPT ![k].state = state]
    /\ activeSearches' = onDone(activeSearches, searches[k].requestId)
    /\ UNCHANGED <<folding, parts, workbenchState, entering, relauncher, replies>>

SearchCompletes(k) == SearchSettles(k, "completed")

SearchFails(k) == SearchSettles(k, "failed")

\* $cancelSearch
cancelSearch(requestId) ==
    /\ Cardinality(Calls("$cancelSearch")) < MaxSearches
    /\ LET search == activeSearches[requestId] IN
       IF search # Null
       THEN /\ activeSearches' = onDone(onDone(activeSearches, requestId),
                                        searches[search[1]].requestId)
            /\ searches' = Cancel(searches, search[1])
            /\ replies' = Append(replies, Reply("$cancelSearch", requestId, <<TRUE>>))
       ELSE /\ replies' = Append(replies, Reply("$cancelSearch", requestId, Null))
            /\ UNCHANGED <<searches, activeSearches>>
    /\ UNCHANGED <<folding, parts, workbenchState, entering, relauncher>>

\* the searches the entries of _activeSearches hold
Tracked(active) == {active[id][1] : id \in {i \in RequestIds : active[i] # Null}}

\* dispose(): every search that has an entry is cancelled, and its onDone
\* removes the entry
disposeSearches ==
    /\ Tracked(activeSearches) # {}
    /\ searches' = [k \in 1..Len(searches) |->
                       IF k \in Tracked(activeSearches)
                       THEN Cancel(searches, k)[k] ELSE searches[k]]
    /\ activeSearches' = NoActiveSearches
    /\ UNCHANGED <<folding, parts, workbenchState, entering, relauncher, replies>>

InitSearch ==
    /\ FoldingIdle
    /\ workbenchState \in WorkbenchStates
    /\ EnterIdle
    /\ SearchIdle
    /\ RelauncherIdle
    /\ PartsIdle

NextSearch ==
    \/ \E requestId \in RequestIds, hasFolders \in BOOLEAN :
           startSearch(requestId, hasFolders)
    \/ \E requestId \in RequestIds : cancelSearch(requestId)
    \/ \E k \in 1..MaxSearches : SearchCompletes(k) \/ SearchFails(k)
    \/ disposeSearches

SpecSearch == InitSearch /\ [][NextSearch]_vars

(***************************************************************************)
(* The workbench-state handling of SettingsChangeRelauncher                *)
(* (relauncher.contribution.ts).  A listener is the disposable that        *)
(* contextService.onDidChangeWorkspaceFolders returns, named by a number;  *)
(* it is bound while it is in folderListeners.                             *)
(***************************************************************************)
\* the fields handleWorkbenchState reads and writes
Binding(unbind, listeners, bound) ==
    [onDidChangeWorkspaceFoldersUnbind |-> unbind, folderListeners |-> listeners,
     listenersBound |-> bound]

\* what dispose(disposable) returns.  dispose is imported from
\* vs/base/common/lifecycle; the call site takes its result for the field:
\* nothing, or the disposable it was given
DisposeReturns(disposable) == {Null, disposable}

\* the listeners a disposable holds bound
Bound(disposable) == IF disposable = Null THEN {} ELSE {disposable[1]}

\* handleWorkbenchState: the bindings it may leave
handleWorkbenchState(state, b) ==
    IF state = "WORKSPACE"
    THEN IF b.onDidChangeWorkspaceFoldersUnbind = Null
         THEN {Binding(<<b.listenersBound + 1>>,
                       b.folderListeners \cup {b.listenersBound + 1},
                       b.listenersBound + 1)}
         ELSE {b}
    ELSE {Binding(r, b.folderListeners \ Bound(b.onDidChangeWorkspaceFoldersUnbind),
                  b.listenersBound) :
             r \in DisposeReturns(b.onDidChangeWorkspaceFoldersUnbind)}

Unconstructed == Binding(Null, {}, 0)

\* workspace.folders[0].uri.fsPath, or void 0 without a folder
FolderPaths == {"a", "b"}

FirstFolderPaths == {Null} \cup {<<path>> : path \in FolderPaths}

\* an empty window has no folder, an opened folder is one folder
FirstFolderPathsIn(state) ==
    CASE state = "EMPTY" -> {Null}
      [] state = "FOLDER" -> FirstFolderPaths \ {Null}
      [] OTHER -> FirstFolderPaths

CurrentBinding ==
    Binding(onDidChangeWorkspaceFoldersUnbind, folderListeners, listenersBound)

\* the state after the constructor: handleWorkbenchState has run once and
\* the listeners of registerListeners are in place
InitRelauncher ==
    /\ FoldingIdle
    /\ PartsIdle
    /\ EnterIdle
    /\ SearchIdle
    /\ workbenchState \in WorkbenchStates
    /\ \E b \in handleWorkbenchState(workbenchState, Unconstructed) :
           /\ onDidChangeWorkspaceFoldersUnbind = b.onDidChangeWorkspaceFoldersUnbind
           /\ folderListeners = b.folderListeners
           /\ listenersBound = b.listenersBound
    /\ timeouts = 0
    /\ stateChanges = 0
    /\ firstFolderPath \in FirstFolderPathsIn(workbenchState)
    /\ restarterTimers = 0
    /\ scheduleCalls = 0
    /\ restartCalls = 0
    /\ folderChanges = 0
    /\ SettingsIdle

\* onDidChangeWorkbenchState fires: setTimeout(() => this.handleWorkbenchState())
ChangeWorkbenchState(state) ==
    /\ stateChanges < MaxStateChanges
    /\ state # workbenchState
    /\ workbenchState' = state
    /\ timeouts' = timeouts + 1
    /\ stateChanges' = stateChanges + 1
    /\ UNCHANGED <<folding, parts, entering, searching, onDidChangeWorkspaceFoldersUnbind,
                   folderListeners, listenersBound, restarting, settings>>

\* a timeout fires and runs handleWorkbenchState
HandleDeferred ==
    /\ timeouts > 0
    /\ timeouts' = timeouts - 1
    /\ \E b \in handleWorkbenchState(workbenchState, CurrentBinding) :
           /\ onDidChangeWorkspaceFoldersUnbind' = b.onDidChangeWorkspaceFoldersUnbind
           /\ folderListeners' = b.folderListeners
           /\ listenersBound' = b.listenersBound
    /\ UNCHANGED <<folding, parts, entering, searching, workbenchState, stateChanges,
                   restarting, settings>>

\* what onDidChangeWorkspaceFolders reads and writes: the field, and the
\* scheduler with the number of schedule() calls made on it
Restarter(path, timers, calls) ==
    [firstFolderPath |-> path, restarterTimers |-> timers, scheduleCalls |-> calls]

\* RunOnceScheduler.schedule() (vs/base/common/async): the pending timer, if
\* there is one, is cancelled and one timer is set
schedule(r) ==
    [r EXCEPT !.restarterTimers = 1, !.scheduleCalls = @ + 1]

\* a handler that schedules the restart on every event
onDidChangeWorkspaceFoldersAlwaysScheduling(newFirstFolderPath, r) ==
    schedule([r EXCEPT !.firstFolderPath = newFirstFolderPath])

\* onDidChangeWorkspaceFolders; newFirstFolderPath is what it reads from
\* contextService.getWorkspace()
onDidChangeWorkspaceFolders(newFirstFolderPath, r) ==
    IF r.firstFolderPath # newFirstFolderPath
    THEN schedule([r EXCEPT !.firstFolderPath = newFirstFolderPath])
    ELSE r

CurrentRestarter == Restarter(firstFolderPath, restarterTimers, scheduleCalls)

\* the workspace's folders change while the workbench is in WORKSPACE state
\* (an opened folder and an empty window have no folder to add or remove):
\* contextService fires onDidChangeWorkspaceFolders, which runs the handler
\* if a listener is bound
ChangeWorkspaceFolders(newFirstFolderPath) ==
    /\ folderChanges < MaxFolderChanges
    /\ workbenchState = "WORKSPACE"
    /\ folderChanges' = folderChanges + 1
    /\ LET r == IF folderListeners # {}
                THEN onDidChangeWorkspaceFolders(newFirstFolderPath, CurrentRestarter)
                ELSE CurrentRestarter
       IN  /\ firstFolderPath' = r.firstFolderPath
           /\ restarterTimers' = r.restarterTimers
           /\ scheduleCalls' = r.scheduleCalls
    /\ UNCHANGED <<folding, parts, entering, searching, workbenchState,
                   onDidChangeWorkspaceFoldersUnbind, folderListeners,
                   listenersBound, timeouts, stateChanges, restartCalls, settings>>

\* a timer of extensionHostRestarter fires, 10 ms after it was set:
\* () => this.extensionService.restartExtensionHost()
RestarterFires ==
    /\ restarterTimers > 0
    /\ restarterTimers' = restarterTimers - 1
    /\ restartCalls' = restartCalls + 1
    /\ UNCHANGED <<folding, parts, entering, searching, workbenchState,
                   onDidChangeWorkspaceFoldersUnbind, folderListeners,
                   listenersBound, timeouts, stateChanges, firstFolderPath,
                   scheduleCalls, folderChanges, settings>>

NextRelauncher ==
    \/ \E state \in WorkbenchStates : ChangeWorkbenchState(state)
    \/ HandleDeferred
    \/ \E newFirstFolderPath \in FirstFolderPaths :
           ChangeWorkspaceFolders(newFirstFolderPath)
    \/ RestarterFires

SpecRelauncher == InitRelauncher /\ [][NextRelauncher]_vars

(***************************************************************************)
(* The settings SettingsChangeRelauncher tracks (relauncher.contribution   *)
(* .ts, onConfigurationChange and doConfirm).  A configuration holds the   *)
(* three sections the code reads, each optional, and in them the four      *)
(* settings, each optional.                                                *)
(***************************************************************************)
\* config.window.titleBarStyle: absent, one of the two styles, or another
\* string
TitleBarStyles == {Null, <<"native">>, <<"custom">>, <<"other">>}

\* config.window.nativeTabs, config.telemetry.enableCrashReporter: a boolean,
\* or (Null) a value whose typeof is not 'boolean'
Booleans == {Null, <<TRUE>>, <<FALSE>>}

\* config.update.channel: a string, or (Null) a value whose typeof is not
\* 'string'
Channels == {Null, <<"stable">>, <<"insiders">>}

Section(S) == {Null} \cup {<<x>> : x \in S}

Configurations ==
    [window : Section([titleBarStyle : TitleBarStyles, nativeTabs : Booleans]),
     update : Section([channel : Channels]),
     telemetry : Section([enableCrashReporter : Booleans])]

TrackedSettings(style, tabs, channel, reporter) ==
    [titleBarStyle |-> style, nativeTabs |-> tabs, updateChannel |-> channel,
     enableCrashReporter |-> reporter]

\* the fields of a relauncher not yet constructed: all undefined
Untracked == TrackedSettings(Null, Null, Null, Null)

CurrentTracked == TrackedSettings(titleBarStyle, nativeTabs, updateChannel, enableCrashReporter)

\* one of the four ifs of onConfigurationChange: the section is there, the
\* value has the type asked for and is not the recorded one
TakesValue(section, value, typed, recorded) ==
    section # Null /\ typed /\ value # recorded

\* an onConfigurationChange that asks for confirmation whether or not it
\* was told to notify
Notifies(notify, changed) == changed

\* if (notify && changed)
NotifiesWhenChanged(notify, changed) == notify /\ changed

\* onConfigurationChange(config, notify) on the recorded values t: the
\* values it leaves recorded, and whether it calls doConfirm
onConfigurationChange(config, notify, t) ==
    LET style == IF config.window = Null THEN Null ELSE config.window[1].titleBarStyle
        tabs == IF config.window = Null THEN Null ELSE config.window[1].nativeTabs
        channel == IF config.update = Null THEN Null ELSE config.update[1].channel
        reporter == IF config.telemetry = Null THEN Null
                    ELSE config.telemetry[1].enableCrashReporter
        takesStyle == TakesValue(config.window, style,
                                 style \in {<<"native">>, <<"custom">>}, t.titleBarStyle)
        takesTabs == TakesValue(config.window, tabs, tabs # Null, t.nativeTabs)
        takesChannel == TakesValue(config.update, channel, channel # Null,
                                   t.updateChannel)
        takesReporter == TakesValue(config.telemetry, reporter, reporter # Null,
                                    t.enableCrashReporter)
        changed == takesStyle \/ takesTabs \/ takesChannel \/ takesReporter
    IN  [tracked |-> TrackedSettings(IF takesStyle THEN style ELSE t.titleBarStyle,
                             IF takesTabs THEN tabs ELSE t.nativeTabs,
                             IF takesChannel THEN channel ELSE t.updateChannel,
                             IF takesReporter THEN reporter ELSE t.enableCrashReporter),
         doConfirm |-> NotifiesWhenChanged(notify, changed)]

\* the fields become those of t
Records(t) ==
    /\ titleBarStyle' = t.titleBarStyle
    /\ nativeTabs' = t.nativeTabs
    /\ updateChannel' = t.updateChannel
    /\ enableCrashReporter' = t.enableCrashReporter

\* the state after the constructor: its onConfigurationChange(config, false)
\* has run on some configuration; a doConfirm it made has its isFocused()
\* query outstanding
InitSettings ==
    /\ FoldingIdle
    /\ EnterIdle
    /\ SearchIdle
    /\ workbenchState = "EMPTY"
    /\ ListeningIdle
    /\ PartsIdle
    /\ \E config \in Configurations :
           LET r == onConfigurationChange(config, FALSE, Untracked) IN
           /\ titleBarStyle = r.tracked.titleBarStyle
           /\ nativeTabs = r.tracked.nativeTabs
           /\ updateChannel = r.tracked.updateChannel
           /\ enableCrashReporter = r.tracked.enableCrashReporter
           /\ focusQueries = IF r.doConfirm THEN 1 ELSE 0
    /\ confirms = 0
    /\ relaunches = 0
    /\ configurationUpdates = 0

\* onDidUpdateConfiguration fires:
\* e => this.onConfigurationChange(getConfiguration(), true); doConfirm
\* begins with windowService.isFocused()
UpdateConfiguration(config) ==
    /\ configurationUpdates < MaxConfigurationUpdates
    /\ configurationUpdates' = configurationUpdates + 1
    /\ LET r == onConfigurationChange(config, TRUE, CurrentTracked) IN
       /\ Records(r.tracked)
       /\ focusQueries' = IF r.doConfirm THEN focusQueries + 1 ELSE focusQueries
    /\ UNCHANGED <<folding, parts, workbenchState, entering, searching,
                   onDidChangeWorkspaceFoldersUnbind, folderListeners,
                   listenersBound, timeouts, stateChanges, restarting,
                   confirms, relaunches>>

\* isFocused() resolves with focused: the callback of doConfirm shows the
\* dialog if the window has the focus, the user answers it with confirmed,
\* and confirmed() relaunches
FocusResolves(focused, confirmed) ==
    /\ focusQueries > 0
    /\ focusQueries' = focusQueries - 1
    /\ confirms' = IF focused THEN confirms + 1 ELSE confirms
    /\ relaunches' = IF focused /\ confirmed THEN relaunches + 1 ELSE relaunches
    /\ UNCHANGED <<folding, parts, workbenchState, entering, searching,
                   onDidChangeWorkspaceFoldersUnbind, folderListeners,
                   listenersBound, timeouts, stateChanges, restarting,
                   tracked, configurationUpdates>>

NextSettings ==
    \/ \E config \in Configurations : UpdateConfiguration(config)
    \/ \E focused \in BOOLEAN, confirmed \in BOOLEAN :
           FocusResolves(focused, confirmed)

SpecSettings == InitSettings /\ [][NextSettings]_vars

(***************************************************************************)
(* WorkspaceEditingService.addFolders (workspaceEditingService.ts).  A     *)
(* URI is its scheme and its path; a stored folder is the entry written    *)
(* for a URI, a path entry for a file URI and a uri entry for any other.   *)
(***************************************************************************)
Uri(scheme, path) == [scheme |-> scheme, path |-> path]

Uris == {Uri("file", "a"), Uri("file", "A"), Uri("ssh", "b")}

\* resource.toString().toLowerCase()
toLowerCase(uri) == IF uri.path = "A" THEN Uri(uri.scheme, "a") ELSE uri

\* { path: massageFolderPathForWorkspace(...) } or { uri: toString(true) }
StoredFolder(uri) ==
    [kind |-> IF uri.scheme = "file" THEN "path" ELSE "uri", of |-> uri]

\* a folder of the workspace: its uri and its raw, stored entry
WorkspaceFolder(uri) == [uri |-> uri, raw |-> StoredFolder(uri)]

isSupported(quality, state) == quality # "stable" /\ state = "WORKSPACE"

contains(resources, toCheck, linux) ==
    \E i \in 1..Len(resources) :
        IF linux THEN resources[i] = toCheck
        ELSE toLowerCase(resources[i]) = toLowerCase(toCheck)

Map(seq, Op(_)) == [i \in 1..Len(seq) |-> Op(seq[i])]

\* addFolders: the folders value handed to doSetFolders, or none
addFolders(foldersToAdd, quality, state, folders, linux) ==
    IF ~isSupported(quality, state) THEN Null
    ELSE LET currentWorkspaceFolderUris == Map(folders, LAMBDA folder : folder.uri)
             currentStoredFolders == Map(folders, LAMBDA folder : folder.raw)
             storedFoldersToAdd ==
                 Map(SelectSeq(foldersToAdd,
                               LAMBDA folderToAdd :
                                   ~contains(currentWorkspaceFolderUris, folderToAdd, linux)),
                     StoredFolder)
         IN  IF Len(storedFoldersToAdd) > 0
             THEN <<currentStoredFolders \o storedFoldersToAdd>>
             ELSE Null

\* a call of addFolders; what it writes is recorded with its argument
AddFolders(foldersToAdd) ==
    /\ Len(addFoldersCalls) < MaxAddFoldersCalls
    /\ addFoldersCalls' = Append(addFoldersCalls,
           [foldersToAdd |-> foldersToAdd,
            written |-> addFolders(foldersToAdd, appQuality, workbenchState,
                                   workspaceFolders, isLinux)])
    /\ UNCHANGED <<folding, workbenchState, entering, searching, relauncher,
                   appQuality, isLinux, workspaceFolders, jake, debugViewlet,
                   viewsViewlet>>

\* the folders a workbench state allows: none in an empty window, one for
\* an opened folder, any number of different ones in a workspace
FoldersIn(state) ==
    {Map(uris, WorkspaceFolder) :
        uris \in {u \in SeqsUpTo(Uris, MaxWorkspaceFolders) :
                     /\ \A i, j \in 1..Len(u) : u[i] = u[j] => i = j
                     /\ state = "EMPTY" => Len(u) = 0
                     /\ state = "FOLDER" => Len(u) = 1}}

InitAddFolders ==
    /\ FoldingIdle
    /\ EnterIdle
    /\ SearchIdle
    /\ RelauncherIdle
    /\ workbenchState \in WorkbenchStates
    /\ appQuality \in {"stable", "insider"}
    /\ isLinux \in BOOLEAN
    /\ workspaceFolders \in FoldersIn(workbenchState)
    /\ addFoldersCalls = <<>>
    /\ JakeIdle
    /\ DebugViewletIdle
    /\ ViewsViewletIdle

NextAddFolders ==
    \E foldersToAdd \in SeqsUpTo(Uris, MaxFoldersToAdd) : AddFolders(foldersToAdd)

SpecAddFolders == InitAddFolders /\ [][NextAddFolders]_vars

(***************************************************************************)
(* The task detection of the jake extension (extensions/jake/src/main.ts). *)
(* The tasks of a folder are named by the version of the Jakefile they     *)
(* were computed from; a promise is the value it resolves with.            *)
(***************************************************************************)
\* the fileWatcher callbacks of FolderDetector.start: a Jakefile is created,
\* changed or deleted, and the detector of its folder forgets its promise
JakefileEvent(folder) ==
    /\ jakefile[folder] < MaxJakefileVersion
    /\ jakefile' = [jakefile EXCEPT ![folder] = @ + 1]
    /\ folderPromise' = IF folder \in detectors
                        THEN [folderPromise EXCEPT ![folder] = Null]
                        ELSE folderPromise
    /\ UNCHANGED <<folding, workbenchState, entering, searching, relauncher,
                   adding, debugViewlet, viewsViewlet, detectors, promise,
                   taskProvider, provided, folderUpdates>>

\* TaskDetector.updateProvider: what becomes of taskProvider and promise
updateProvider(provider, size, p) ==
    IF ~provider /\ size > 0 THEN [taskProvider |-> TRUE, promise |-> p]
    ELSE IF provider /\ size = 0 THEN [taskProvider |-> FALSE, promise |-> Null]
    ELSE [taskProvider |-> provider, promise |-> p]

\* TaskDetector.updateWorkspaceFolders; enabled are the folders whose
\* configuration has jake.autoDetect on
updateWorkspaceFolders(added, removed, enabled) ==
    /\ folderUpdates < MaxFolderUpdates
    /\ added \cap removed = {}
    /\ added \cap detectors = {}
    /\ added \cup removed # {}
    /\ folderUpdates' = folderUpdates + 1
    /\ LET changed == removed \cap detectors # {} \/ added \cap enabled # {}
           updated == updateProvider(taskProvider,
                                     Cardinality(detectors'),
                                     IF changed THEN Null ELSE promise)
       IN  /\ detectors' = (detectors \ removed) \cup (added \cap enabled)
           /\ folderPromise' = [folder \in JakeFolders |->
                  IF folder \in (removed \cap detectors) \cup (added \cap enabled)
                  THEN Null ELSE folderPromise[folder]]
           /\ taskProvider' = updated.taskProvider
           /\ promise' = updated.promise
    /\ UNCHANGED <<folding, workbenchState, entering, searching, relauncher,
                   adding, debugViewlet, viewsViewlet, jakefile, provided>>

\* FolderDetector.getTasks of every detector: the promise each holds after
\* the call, computed from the Jakefile where it held none
FolderGetTasks ==
    [folder \in JakeFolders |->
        IF folder \in detectors /\ folderPromise[folder] = Null
        THEN <<jakefile[folder]>> ELSE folderPromise[folder]]

\* TaskDetector.computeTasks: the task lists of the detectors
computeTasks == <<[folder \in detectors |-> FolderGetTasks[folder][1]]>>

\* TaskDetector.getTasks: the promise it holds, computed where it held none
getTasks == IF promise = Null THEN computeTasks ELSE promise

\* provideTasks: () => this.getTasks()
ProvideTasks ==
    /\ taskProvider
    /\ Len(provided) < MaxProvideCalls
    /\ promise' = getTasks
    /\ folderPromise' = IF promise = Null THEN FolderGetTasks ELSE folderPromise
    /\ provided' = Append(provided, promise'[1])
    /\ UNCHANGED <<folding, workbenchState, entering, searching, relauncher,
                   adding, debugViewlet, viewsViewlet, jakefile, detectors,
                   taskProvider, folderUpdates>>

InitJake ==
    /\ FoldingIdle
    /\ EnterIdle
    /\ SearchIdle
    /\ RelauncherIdle
    /\ workbenchState \in WorkbenchStates
    /\ AddingIdle
    /\ JakeIdle
    /\ DebugViewletIdle
    /\ ViewsViewletIdle

NextJake ==
    \/ \E folder \in JakeFolders : JakefileEvent(folder)
    \/ \E added, removed, enabled \in SUBSET JakeFolders :
           updateWorkspaceFolders(added, removed, enabled)
    \/ ProvideTasks

SpecJake == InitJake /\ [][NextJake]_vars

(***************************************************************************)
(* The progress runner of DebugViewlet (its source follows the relauncher  *)
(* in relauncher.contribution.ts).  A runner is named by its position in   *)
(* runners, which counts the done() calls made on it.                      *)
(***************************************************************************)
DebugStates == {"Inactive", "Initializing", "Stopped", "Running"}

Progress(runner, all) == [progressRunner |-> runner, runners |-> all]

\* this.progressRunner.done(), if a runner is held
done(v) ==
    IF v.progressRunner # Null
    THEN [v EXCEPT !.runners[v.progressRunner[1]] = @ + 1]
    ELSE v

\* a handler that keeps the runner it holds while the debug service goes
\* on initializing
onDebugServiceStateChangeKeepingRunner(state, v) ==
    IF state = "Initializing" /\ v.progressRunner # Null THEN v
    ELSE IF state = "Initializing"
         THEN Progress(<<Len(v.runners) + 1>>, Append(v.runners, 0))
         ELSE Progress(Null, done(v).runners)

\* onDebugServiceStateChange; progressService.show(true) returns a new runner
onDebugServiceStateChange(state, v) ==
    IF state = "Initializing"
    THEN Progress(<<Len(v.runners) + 1>>, Append(done(v).runners, 0))
    ELSE Progress(Null, done(v).runners)

\* debugService.onDidChangeState fires with state
ChangeDebugState(state) ==
    /\ Len(debugStates) < MaxDebugStateChanges
    /\ debugStates' = Append(debugStates, state)
    /\ LET v == onDebugServiceStateChange(state, Progress(progressRunner, runners)) IN
       /\ progressRunner' = v.progressRunner
       /\ runners' = v.runners
    /\ UNCHANGED <<folding, workbenchState, entering, searching, relauncher, adding,
                   jake, viewsViewlet>>

InitDebugViewlet ==
    /\ FoldingIdle
    /\ EnterIdle
    /\ SearchIdle
    /\ RelauncherIdle
    /\ workbenchState \in WorkbenchStates
    /\ PartsIdle

NextDebugViewlet == \E state \in DebugStates : ChangeDebugState(state)

SpecDebugViewlet == InitDebugViewlet /\ [][NextDebugViewlet]_vars

(***************************************************************************)
(* The panels of ViewsViewlet (viewsViewlet.ts).  A panel is named by the  *)
(* id of its view; a view state is modelled by its order alone.  Indices   *)
(* and orders count from 0 as in the source, sequences from 1.             *)
(***************************************************************************)
\* firstIndex(array, panel => panel === view): -1 when there is none
firstIndex(panels, view) ==
    IF \E i \in 1..Len(panels) : panels[i] = view
    THEN (CHOOSE i \in 1..Len(panels) :
              panels[i] = view /\ \A j \in 1..i - 1 : panels[j] # view) - 1
    ELSE -1

\* array.splice(start, deleteCount, ...items): the array it leaves
splice(array, start, deleteCount, items) ==
    LET from == IF start > Len(array) THEN Len(array) ELSE start
        upTo == IF from + deleteCount > Len(array) THEN Len(array)
                ELSE from + deleteCount
    IN  SubSeq(array, 1, from) \o items \o SubSeq(array, upTo + 1, Len(array))

\* createViewState: order is the index of the view
createViewState(panels, view) == <<firstIndex(panels, view)>>

\* updateViews adding one view at index: the panel is created and spliced
\* in; its view state is read, not written
AddView(view, index) ==
    /\ viewletSteps < MaxViewletSteps
    /\ firstIndex(viewsViewletPanels, view) = -1
    /\ index \in 0..Len(viewsViewletPanels)
    /\ viewletSteps' = viewletSteps + 1
    /\ viewsViewletPanels' = splice(viewsViewletPanels, index, 0, <<view>>)
    /\ UNCHANGED <<folding, workbenchState, entering, searching, relauncher,
                   adding, jake, debugViewlet, viewsStates, movePanelThrew>>

\* layout: every panel's state is updated in size, and created where there
\* is none
Layout ==
    /\ viewletSteps < MaxViewletSteps
    /\ viewletSteps' = viewletSteps + 1
    /\ viewsStates' = [id \in Views |->
           IF firstIndex(viewsViewletPanels, id) >= 0 /\ viewsStates[id] = Null
           THEN createViewState(viewsViewletPanels, id)
           ELSE viewsStates[id]]
    /\ UNCHANGED <<folding, workbenchState, entering, searching, relauncher,
                   adding, jake, debugViewlet, viewsViewletPanels, movePanelThrew>>

\* the positions, from 1, whose panel has no view state
Stateless(panels, states) == {i \in 1..Len(panels) : states[panels[i]] = Null}

\* the for loop of movePanel: the orders it has written when it ends; it
\* ends at the first panel without a view state, whose order it cannot set
SetOrders(panels, states) ==
    [id \in Views |->
        IF /\ firstIndex(panels, id) >= 0
           /\ \A i \in Stateless(panels, states) : firstIndex(panels, id) + 1 < i
        THEN <<firstIndex(panels, id)>>
        ELSE states[id]]

\* movePanel: the panels and states it leaves, and whether it threw
movePanel(from, to, panels, states) ==
    LET fromIndex == firstIndex(panels, from)
        toIndex == firstIndex(panels, to)
        moved == splice(splice(panels, fromIndex, 1, <<>>), toIndex, 0, <<from>>)
    IN  IF fromIndex < 0 \/ fromIndex >= Len(panels)
           \/ toIndex < 0 \/ toIndex >= Len(panels)
        THEN [panels |-> panels, states |-> states, threw |-> FALSE]
        ELSE [panels |-> moved, states |-> SetOrders(moved, states),
              threw |-> Stateless(moved, states) # {}]

\* a call of movePanel
MovePanel(from, to) ==
    /\ viewletSteps < MaxViewletSteps
    /\ viewletSteps' = viewletSteps + 1
    /\ LET r == movePanel(from, to, viewsViewletPanels, viewsStates) IN
       /\ viewsViewletPanels' = r.panels
       /\ viewsStates' = r.states
       /\ movePanelThrew' = r.threw
    /\ UNCHANGED <<folding, workbenchState, entering, searching, relauncher,
                   adding, jake, debugViewlet>>

InitViewsViewlet ==
    /\ FoldingIdle
    /\ EnterIdle
    /\ SearchIdle
    /\ RelauncherIdle
    /\ workbenchState \in WorkbenchStates
    /\ PartsIdle

NextViewsViewlet ==
    \/ \E view \in Views, index \in 0..MaxViews : AddView(view, index)
    \/ Layout
    \/ \E from, to \in Views : MovePanel(from, to)

SpecViewsViewlet == InitViewsViewlet /\ [][NextViewsViewlet]_vars

(***************************************************************************)
(* Properties of the returned sequence.                                    *)
(***************************************************************************)
lineCount == Len(model)

Indices == 1..Len(result)

Span(r) == r.endLineNumber - r.startLineNumber

Blank(ln) == model[ln].indent = -1

\* C1: the returned sequence is ordered by ascending startLineNumber, for
\* every model, offSide, marker configuration and minimumRangeSize.
C1_SortedByStart ==
    pc = "done" =>
        \A i, j \in Indices :
            i < j => result[i].startLineNumber <= result[j].startLineNumber

\* a call returned a marker range and a pure-indent range in one sequence
C1_Witness ==
    /\ pc = "done"
    /\ Len(result) >= 2
    /\ \E i, j \in Indices : result[i].marker /\ ~result[j].marker

\* C2: every returned range has 1 <= startLineNumber <= endLineNumber <=
\* lineCount.
C2_RangeWithinModel ==
    pc = "done" =>
        \A i \in Indices :
            /\ 1 <= result[i].startLineNumber
            /\ result[i].startLineNumber <= result[i].endLineNumber
            /\ result[i].endLineNumber <= lineCount

\* a returned pure-indent range ends on the last line of the model, and a
\* marker range is returned with it, under offSide
C2_Witness ==
    /\ pc = "done"
    /\ offSide
    /\ \E i \in Indices : ~result[i].marker /\ result[i].endLineNumber = lineCount
    /\ \E i \in Indices : result[i].marker

\* the default value of the minimumRangeSize parameter
DefaultMinimumRangeSize == 1

\* C3: every returned range that is not a marker range spans at least
\* minimumRangeSize lines beyond its first; with the default of 1 none
\* covers a single line.
C3_MinimumRangeSize ==
    pc = "done" =>
        \A i \in Indices :
            ~result[i].marker =>
                /\ Span(result[i]) >= minimumRangeSize
                /\ minimumRangeSize = DefaultMinimumRangeSize =>
                       result[i].startLineNumber # result[i].endLineNumber

\* with minimumRangeSize = 2 a range of span exactly 2 was returned, and the
\* model also held a block of span 1, which was not
C3_Witness ==
    /\ pc = "done"
    /\ minimumRangeSize = 2
    /\ \E i \in Indices : ~result[i].marker /\ Span(result[i]) = 2
    /\ Len(computeRanges(model, offSide, markers, 0)) > Len(result)

(***************************************************************************)
(* What the indentation of the model alone says the ranges are.            *)
(***************************************************************************)
Lines == 1..lineCount

SetOf(seq) == {seq[i] : i \in 1..Len(seq)}

Min(S) == CHOOSE x \in S : \A y \in S : x <= y

Max(S) == CHOOSE x \in S : \A y \in S : x >= y

NonBlankAfter(s) == {t \in Lines : t > s /\ ~Blank(t)}

\* the next non-whitespace line after s is indented deeper than s
OpensBlock(s) ==
    /\ ~Blank(s)
    /\ NonBlankAfter(s) # {}
    /\ model[Min(NonBlankAfter(s))].indent > model[s].indent

\* the first non-whitespace line after s indented no deeper than s
BlockCloser(s) ==
    LET closers == {t \in NonBlankAfter(s) : model[t].indent <= model[s].indent}
    IN  IF closers = {} THEN lineCount + 1 ELSE Min(closers)

IndentBlocks(minSize) ==
    {IndentRange(s, BlockCloser(s) - 1, model[s].indent, FALSE) :
        s \in {t \in Lines : OpensBlock(t) /\ BlockCloser(t) - 1 - t >= minSize}}

Indents(mdl) == [i \in 1..Len(mdl) |-> mdl[i].indent]

\* C4: with no markers and offSide = false the returned ranges are exactly
\* the blocks [s, e]: s is not whitespace-only, the next non-whitespace line
\* is indented deeper, e is the line before the first later non-whitespace
\* line indented no deeper than s (or the last line), and e - s >=
\* minimumRangeSize.  Indents [0,1,2,1,0] give [1,4] and [2,3].
C4_ExactlyTheIndentBlocks ==
    (pc = "done" /\ markers = Null /\ ~offSide) =>
        /\ SetOf(result) = IndentBlocks(minimumRangeSize)
        /\ Len(result) = Cardinality(IndentBlocks(minimumRangeSize))
        /\ (Indents(model) = <<0, 1, 2, 1, 0>> /\ minimumRangeSize = 1) =>
               result = <<IndentRange(1, 4, 0, FALSE), IndentRange(2, 3, 1, FALSE)>>

\* the call on indents [0,1,2,1,0] with minimumRangeSize = 1 has returned
C4_Witness ==
    /\ pc = "done"
    /\ markers = Null
    /\ ~offSide
    /\ Indents(model) = <<0, 1, 2, 1, 0>>
    /\ minimumRangeSize = 1
    /\ Len(result) = 2

(***************************************************************************)
(* Bracket matching of the marker lines.                                   *)
(***************************************************************************)
StartLines == {s \in Lines : ~Blank(s) /\ Match(model[s].content, markers[1]) = "start"}

EndLines == {e \in Lines : ~Blank(e) /\ Match(model[e].content, markers[1]) = "end"}

\* the pairs made by the start-marker lines at or below line s: a start line
\* takes the nearest end line below it that no start line in between took
RECURSIVE PairsFrom(_)
PairsFrom(s) ==
    IF s > lineCount THEN {}
    ELSE LET inner == PairsFrom(s + 1)
             free == {e \in EndLines : e > s /\ \A p \in inner : p[2] # e}
         IN  IF s \in StartLines /\ free # {}
             THEN inner \cup {<<s, Min(free)>>}
             ELSE inner

MarkerRanges == {i \in Indices : result[i].marker}

\* C5: with markers without indent constraint and offSide = false the marker
\* ranges are exactly the bracket-matched (start line, end line) pairs;
\* unmatched markers give no range and a marker line is in at most one
\* marker range.  ['#region', 'code', '#endregion'] gives exactly [1,3].
C5_MarkerRangesAreBracketPairs ==
    (pc = "done" /\ markers # Null /\ markers[1].indent = Null /\ ~offSide) =>
        /\ {<<result[i].startLineNumber, result[i].endLineNumber>> : i \in MarkerRanges}
               = PairsFrom(1)
        /\ \A i, j \in MarkerRanges :
               i # j =>
                   {result[i].startLineNumber, result[i].endLineNumber}
                   \cap {result[j].startLineNumber, result[j].endLineNumber} = {}
        /\ [i \in Lines |-> model[i].content] = <<<<StartText>>, <<"code">>, <<EndText>>>>
               => /\ Len(result) = 1
                  /\ result[1].startLineNumber = 1
                  /\ result[1].endLineNumber = 3
                  /\ result[1].marker

\* two nested marker pairs were returned
C5_Witness ==
    /\ pc = "done"
    /\ markers # Null
    /\ markers[1].indent = Null
    /\ ~offSide
    /\ \E i, j \in MarkerRanges :
           /\ result[i].startLineNumber < result[j].startLineNumber
           /\ result[j].endLineNumber < result[i].endLineNumber

\* C6: two calls with the same unchanged model, offSide, markers and
\* minimumRangeSize return identical sequences, and the arguments are the
\* same after the calls as before.
C6_RepeatedCallsAgree ==
    \A i, j \in 1..Len(returned) :
        /\ returned[i].result = returned[j].result
        /\ returned[i].args = returned[j].args
        /\ returned[i].args = args

\* the second call has returned, and the ranges include a marker range
C6_Witness ==
    /\ Len(returned) = 2
    /\ pc = "done"
    /\ Len(result) >= 2
    /\ \E i \in Indices : result[i].marker

NonBlankLines == {t \in Lines : ~Blank(t)}

\* C7: with no markers, when all non-whitespace lines have the same indent
\* (whitespace-only lines anywhere), the result is empty for either offSide
\* and any minimumRangeSize.
C7_UniformIndentGivesNothing ==
    (pc = "done" /\ markers = Null
     /\ \A s, t \in NonBlankLines : model[s].indent = model[t].indent)
        => result = <<>>

\* a call returned for a model of uniform indent with a whitespace-only line
\* between two others, under offSide and with minimumRangeSize = 0
C7_Witness ==
    /\ pc = "done"
    /\ markers = Null
    /\ offSide
    /\ minimumRangeSize = 0
    /\ Cardinality(NonBlankLines) >= 3
    /\ \A s, t \in NonBlankLines : model[s].indent = model[t].indent
    /\ \E b \in Lines : Blank(b) /\ Min(NonBlankLines) < b /\ b < Max(NonBlankLines)

\* the ranges of seq that are marker ranges or span at least minSize
RECURSIVE FilterBySize(_, _)
FilterBySize(seq, minSize) ==
    IF seq = <<>> THEN <<>>
    ELSE IF Head(seq).marker \/ Span(Head(seq)) >= minSize
         THEN <<Head(seq)>> \o FilterBySize(Tail(seq), minSize)
         ELSE FilterBySize(Tail(seq), minSize)

\* C8: the result for minimumRangeSize = m is the result for
\* minimumRangeSize = 0 with exactly the non-marker ranges of span < m
\* removed; marker ranges are the same for every m.
C8_MinimumRangeSizeIsAFilter ==
    pc = "done" =>
        result = FilterBySize(computeRanges(model, offSide, markers, 0),
                              minimumRangeSize)

\* with minimumRangeSize = 2 a block of span 1 was suppressed and one of
\* span 2 was kept
C8_Witness ==
    /\ pc = "done"
    /\ minimumRangeSize = 2
    /\ \E i \in Indices : ~result[i].marker /\ Span(result[i]) = 2
    /\ \E r \in SetOf(computeRanges(model, offSide, markers, 0)) :
           ~r.marker /\ Span(r) = 1

\* the last non-whitespace line at or before line e
LastNonBlank(e) == Max({t \in NonBlankLines : t <= e})

MoveEndsBack(seq) ==
    [i \in 1..Len(seq) |->
        [seq[i] EXCEPT !.endLineNumber = LastNonBlank(seq[i].endLineNumber)]]

\* C9: with no markers the offSide = true result is the offSide = false
\* result for minimumRangeSize = 0 with every endLineNumber moved back to the
\* last non-whitespace line at or before it, then filtered by
\* minimumRangeSize; no range ends on a whitespace-only line, and a
\* whitespace-only line between two lines of a block stays inside the
\* block's range.
C9_OffSideMovesEndsBack ==
    (pc = "done" /\ markers = Null /\ offSide) =>
        /\ result = FilterBySize(MoveEndsBack(computeRanges(model, FALSE, Null, 0)),
                                 minimumRangeSize)
        /\ \A i \in Indices : ~Blank(result[i].endLineNumber)
        /\ minimumRangeSize = 0 =>
               \A r \in SetOf(computeRanges(model, FALSE, Null, 0)) :
                   \A b, c \in Lines :
                       (Blank(b) /\ ~Blank(c)
                        /\ r.startLineNumber < b /\ b < c /\ c <= r.endLineNumber)
                           => \E i \in Indices :
                                  /\ result[i].startLineNumber = r.startLineNumber
                                  /\ result[i].endLineNumber >= c

\* under offSide a range was returned that holds a whitespace-only line
\* between two lines of its block and whose end was moved back off a
\* whitespace-only line
C9_Witness ==
    /\ pc = "done"
    /\ markers = Null
    /\ offSide
    /\ \E i \in Indices :
           /\ \E b \in Lines :
                  Blank(b) /\ result[i].startLineNumber < b /\ b < result[i].endLineNumber
           /\ result[i].endLineNumber < lineCount
           /\ Blank(result[i].endLineNumber + 1)

\* the model with the content of every line whose indent is not k replaced by
\* text no pattern matches
WithoutMarkersOffIndent(mdl, k) ==
    [i \in 1..Len(mdl) |->
        IF mdl[i].indent # k /\ mdl[i].indent # -1
        THEN Line(mdl[i].indent, <<"code">>) ELSE mdl[i]]

MatchingLine(ln) == ~Blank(ln) /\ Match(model[ln].content, markers[1]) # "null"

\* C10: when markers.indent is a number k >= 0, a matching line at another
\* indent is handled as a plain indentation line: the result is that of the
\* model with those lines' content replaced by non-matching text, and every
\* marker range has indent k.  When markers.indent is unset a matching line
\* takes the marker branch at every indent >= 0.
C10_MarkerIndentConstraint ==
    /\ (pc = "done" /\ markers # Null /\ markers[1].indent # Null) =>
           /\ result = computeRanges(WithoutMarkersOffIndent(model, markers[1].indent[1]),
                                     offSide, markers, minimumRangeSize)
           /\ \A i \in MarkerRanges : result[i].indent = markers[1].indent[1]
    /\ (pc = "loop" /\ line < lineCount /\ markers # Null) =>
           /\ (markers[1].indent # Null /\ MatchingLine(line + 1)
               /\ model[line + 1].indent # markers[1].indent[1])
                  => branch = "indent"
           /\ (markers[1].indent = Null /\ MatchingLine(line + 1))
                  => branch \in {"start", "end"}

\* with markers.indent = 1 a call returned a marker range although a start
\* and an end marker text also stood at indent 0
C10_Witness ==
    /\ pc = "done"
    /\ markers # Null
    /\ markers[1].indent = <<1>>
    /\ MarkerRanges # {}
    /\ \E s, e \in Lines :
           /\ model[s].indent = 0 /\ Match(model[s].content, markers[1]) = "start"
           /\ model[e].indent = 0 /\ Match(model[e].content, markers[1]) = "end"
           /\ s < e

\* C11: for a model with no whitespace-only line, offSide = true and
\* offSide = false return identical sequences, for any markers and
\* minimumRangeSize.
C11_OffSideOnlyThroughWhitespace ==
    (pc = "done" /\ \A ln \in Lines : ~Blank(ln)) =>
        result = computeRanges(model, ~offSide, markers, minimumRangeSize)

\* a call returned ranges, one of them a marker range, for a model without
\* whitespace-only lines, under offSide
C11_Witness ==
    /\ pc = "done"
    /\ offSide
    /\ lineCount >= 3
    /\ \A ln \in Lines : ~Blank(ln)
    /\ Len(result) >= 2
    /\ MarkerRanges # {}

\* C12: for a model with lineCount = 0 the call returns the empty sequence
\* and queries neither getIndentLevel nor getLineContent, whatever offSide,
\* markers and minimumRangeSize are.
C12_EmptyModel ==
    lineCount = 0 =>
        /\ pc # "threw"
        /\ indentQueries = <<>>
        /\ contentQueries = <<>>
        /\ result = <<>>
        /\ \A i \in 1..Len(returned) : returned[i].result = <<>>

\* the call on the empty model has returned, with markers given and offSide
C12_Witness ==
    /\ lineCount = 0
    /\ pc = "done"
    /\ Len(returned) = 1
    /\ markers # Null
    /\ offSide

\* the line numbers lineCount, lineCount - 1, ..., ln + 1
DownTo(ln) == [k \in 1..(lineCount - ln) |-> lineCount + 1 - k]

\* C13: the call ends without error: it visits each line from lineCount
\* down to 1 exactly once, the pop loops leave the stack non-empty, and
\* getIndentLevel and getLineContent are called only with line numbers in
\* [1, lineCount].
C13_TerminatesWithoutError ==
    /\ pc # "threw"
    /\ \A i \in 1..Len(indentQueries) : indentQueries[i] \in Lines
    /\ \A i \in 1..Len(contentQueries) : contentQueries[i] \in Lines
    /\ pc \in {"loop", "done"} =>
           /\ line \in 0..lineCount
           /\ indentQueries = DownTo(line)
           /\ Len(previousRegions) >= 1
    /\ pc = "done" => line = 0
    /\ pc \in {"idle", "loop"} => ENABLED Next

\* the call returned after a pass in which both pop loops ran and
\* getLineContent was read
C13_Witness ==
    /\ pc = "done"
    /\ lineCount = MaxRepeatLines
    /\ indentQueries = DownTo(0)
    /\ contentQueries # <<>>
    /\ \E i, j \in Indices : result[i].marker /\ ~result[j].marker

\* C14: at every step of the pass the stack is non-empty and its bottom
\* element is the sentinel: never popped, its indent -1 and its marker none
\* throughout; it is seeded with line lineCount + 1.
C14_SentinelStays ==
    /\ pc \in {"loop", "done"} =>
           /\ Len(previousRegions) >= 1
           /\ previousRegions[1].indent = -1
           /\ previousRegions[1].marker = Null
           /\ \A k \in 2..Len(previousRegions) : previousRegions[k].indent # -1
    /\ (pc = "loop" /\ line = lineCount) => previousRegions = <<Sentinel(model)>>

\* an unmatched start marker has just discarded every region above the
\* sentinel
C14_Witness ==
    /\ pc = "loop"
    /\ branch = "start"
    /\ Len(before) >= 3
    /\ Len(previousRegions) = 1
    /\ previousRegions[1].indent = -1

\* C15: two calls on the same unchanged arguments whose steps interleave
\* each return the sequence the call returns when run alone.
C15_InterleavedCallsIndependent ==
    /\ pc = "done" =>
           result = computeRanges(model, offSide, markers, minimumRangeSize)
    /\ other.pc = "done" =>
           other.result = computeRanges(model, offSide, markers, minimumRangeSize)
    /\ \A i \in 1..Len(returned) : returned[i].args = args

\* the second call has returned ranges while the first is in the middle of
\* its pass and has pushed a range of its own
C15_Witness ==
    /\ other.pc = "done"
    /\ Len(other.result) >= 2
    /\ pc = "loop"
    /\ line > 0
    /\ line < lineCount
    /\ result # <<>>

\* line ln takes the end-marker branch: not whitespace-only, at the marker
\* indent when one is set, and its content matches the end pattern
EndMarkerLine(ln) ==
    /\ markers # Null
    /\ ~Blank(ln)
    /\ markers[1].indent = Null \/ markers[1].indent = <<model[ln].indent>>
    /\ Match(model[ln].content, markers[1]) = "end"

\* C16: the endLineNumber of every returned marker range is the line of an
\* end marker, for either offSide value and with whitespace-only lines
\* anywhere.
C16_MarkerRangeEndsAtEndMarker ==
    pc = "done" =>
        \A i \in MarkerRanges : EndMarkerLine(result[i].endLineNumber)

\* the line the last iteration worked on
current == line + 1

\* the positions of `before` the pop loop of the plain indentation line
\* `current` removes: the regions on top with a larger indent
PoppedPositions ==
    {k \in 1..Len(before) :
        \A j \in k..Len(before) : before[j].indent > model[current].indent}

\* the ranges pushed by the iteration on line `current`
PushedAtCurrent == {r \in SetOf(result) : r.startLineNumber = current}

\* C17, as stated: in the plain indentation branch every region on top with
\* a larger indent is popped, and for each popped region whose span
\* (poppedLine - 1 - currentLine) is at least minimumRangeSize a range
\* [currentLine, poppedLine - 1] with the popped region's indent is emitted.
C17_RangePerPoppedRegion ==
    (pc = "loop" /\ branch = "indent") =>
        \A k \in PoppedPositions :
            /\ Len(previousRegions) <= k
            /\ before[k].line - 1 - current >= minimumRangeSize =>
                   IndentRange(current, before[k].line - 1, before[k].indent, FALSE)
                       \in SetOf(result)

\* C17, amended: every region on top with a larger indent is popped; when at
\* least one was popped, one range [currentLine, L - 1] with the current
\* line's indent is emitted, L being the line of the region left on top,
\* provided L - 1 - currentLine >= minimumRangeSize; nothing else is emitted.
C17_OneRangeAfterThePops ==
    (pc = "loop" /\ branch = "indent") =>
        LET kept == Len(before) - Cardinality(PoppedPositions)
            endLineNumber == before[kept].line - 1
        IN  /\ kept >= 1
            /\ Len(previousRegions) \in {kept, kept + 1}
            /\ SubSeq(previousRegions, 1, kept - 1) = SubSeq(before, 1, kept - 1)
            /\ Top(previousRegions).indent = model[current].indent
            /\ Top(previousRegions).line = current
            /\ PushedAtCurrent =
                   IF PoppedPositions # {}
                      /\ endLineNumber - current >= minimumRangeSize
                   THEN {IndentRange(current, endLineNumber, model[current].indent,
                                     FALSE)}
                   ELSE {}

\* a plain indentation line has just popped two regions and pushed a range
C17_Witness ==
    /\ pc = "loop"
    /\ branch = "indent"
    /\ Cardinality(PoppedPositions) >= 2
    /\ PushedAtCurrent # {}

\* C18: the indent of every returned range is the indent level of its
\* start line and is >= 0; -1 and -2 never appear.
C18_RangeIndentIsStartLineIndent ==
    pc = "done" =>
        \A i \in Indices :
            /\ result[i].indent = model[result[i].startLineNumber].indent
            /\ result[i].indent >= 0

\* a marker range at indent 1 and a pure-indent range at indent 0 were
\* returned
C18_Witness ==
    /\ pc = "done"
    /\ \E i, j \in Indices :
           /\ result[i].marker /\ result[i].indent = 1
           /\ ~result[j].marker /\ result[j].indent = 0

Disjoint(a, b) ==
    a.endLineNumber < b.startLineNumber \/ b.endLineNumber < a.startLineNumber

Inside(a, b) ==
    b.startLineNumber <= a.startLineNumber /\ a.endLineNumber <= b.endLineNumber

\* C19: any two returned ranges are disjoint or nested, for any mix of
\* marker and pure-indent ranges, either offSide and unmatched markers.
C19_DisjointOrNested ==
    pc = "done" =>
        \A i, j \in Indices :
            \/ Disjoint(result[i], result[j])
            \/ Inside(result[i], result[j])
            \/ Inside(result[j], result[i])

\* a pure-indent range inside a marker range was returned, with an
\* unmatched marker line in the model
C19_Witness ==
    /\ pc = "done"
    /\ markers # Null
    /\ \E i, j \in Indices :
           /\ result[i].marker /\ ~result[j].marker
           /\ Inside(result[j], result[i])
    /\ \E ln \in Lines :
           /\ MatchingLine(ln)
           /\ \A i \in MarkerRanges :
                  ln # result[i].startLineNumber /\ ln # result[i].endLineNumber

\* C20: with no markers, a returned range B that starts inside a returned
\* range A, after A's start, ends inside A and has a larger indent.
C20_InnerRangeIsDeeper ==
    (pc = "done" /\ markers = Null) =>
        \A a, b \in Indices :
            (result[a].startLineNumber < result[b].startLineNumber
             /\ result[b].startLineNumber <= result[a].endLineNumber)
                => /\ result[b].endLineNumber <= result[a].endLineNumber
                   /\ result[b].indent > result[a].indent

\* two ranges ending on the same line, one inside the other, were returned
\* under offSide, the model holding a whitespace-only line
C20_Witness ==
    /\ pc = "done"
    /\ markers = Null
    /\ offSide
    /\ \E ln \in Lines : Blank(ln)
    /\ \E a, b \in Indices :
           /\ result[a].startLineNumber < result[b].startLineNumber
           /\ result[b].endLineNumber <= result[a].endLineNumber
           /\ result[b].endLineNumber = result[a].endLineNumber

\* C21: processing a whitespace-only line emits no range and neither pushes
\* nor pops a pending region: with offSide = false the stack and the result
\* are unchanged, with offSide = true only the line of the top region
\* changes, to the current line.  No returned range starts on a
\* whitespace-only line.
C21_WhitespaceLineFrame ==
    /\ [][WhitespaceIteration =>
              /\ result' = result
              /\ Len(previousRegions') = Len(previousRegions)
              /\ previousRegions' =
                     IF offSide
                     THEN [previousRegions EXCEPT ![Len(previousRegions)].line = line]
                     ELSE previousRegions]_vars
    /\ [](pc = "done" => \A i \in Indices : ~Blank(result[i].startLineNumber))

\* under offSide a whitespace-only line has just moved the line of a region
\* above the sentinel, with a range already collected
C21_Witness ==
    /\ pc = "loop"
    /\ branch = "whitespace"
    /\ offSide
    /\ Len(before) >= 2
    /\ previousRegions # before
    /\ result # <<>>

\* the model with line b replaced by a line of code at indent k
WithLineAt(mdl, b, k) == [mdl EXCEPT ![b] = Line(k, <<"code">>)]

\* C22: with offSide = true and no markers, replacing a whitespace-only line
\* that has a non-whitespace line below it by a non-whitespace line at the
\* indent of the next non-whitespace line below gives the same sequence of
\* ranges.
C22_BlankLineBelongsToNextBlock ==
    (pc = "done" /\ markers = Null /\ offSide) =>
        \A b \in Lines :
            (Blank(b) /\ NonBlankAfter(b) # {}) =>
                computeRanges(WithLineAt(model, b, model[Min(NonBlankAfter(b))].indent),
                              offSide, markers, minimumRangeSize) = result

\* a range was returned under offSide that ends on the line before a
\* whitespace-only line which has a non-whitespace line below it
C22_Witness ==
    /\ pc = "done"
    /\ markers = Null
    /\ offSide
    /\ \E b \in Lines :
           /\ Blank(b)
           /\ NonBlankAfter(b) # {}
           /\ \E i \in Indices : result[i].endLineNumber = b - 1

\* position k of the stack holds a region awaiting its start marker
Awaiting(regions, k) == regions[k].marker # Null

\* C23: a region pushed for an end-marker line (indent -2, active marker) is
\* never popped, neither by the pop loop of a plain indentation line nor by
\* the discard loop of a start marker; it stops awaiting only when a start
\* marker line converts it in place, which emits exactly one marker range,
\* clears its marker and sets its indent and line to the start marker
\* line's.
C23_AwaitingRegionIsNeverPopped ==
    [][(pc = "loop" /\ pc' = "loop") =>
          \A k \in 1..Len(previousRegions) :
              Awaiting(previousRegions, k) =>
                  /\ previousRegions[k].indent = -2
                  /\ k <= Len(previousRegions')
                  /\ \/ /\ Awaiting(previousRegions', k)
                        /\ previousRegions'[k].indent = -2
                     \/ /\ branch' = "start"
                        /\ k = Len(previousRegions')
                        /\ previousRegions'[k] =
                               PreviousRegion(model[line].indent, line, Null)
                        /\ Len(result') = Len(result) + 1
                        /\ SubSeq(result', 1, Len(result)) = result
                        /\ Top(result').marker
                        /\ Top(result').startLineNumber = line]_vars

\* a start marker line has just converted an awaiting region after
\* discarding the regions above it, and another awaiting region stays below
C23_Witness ==
    /\ pc = "loop"
    /\ branch = "start"
    /\ \E k \in 2..Len(before) :
           /\ k < Len(before)
           /\ Awaiting(before, k)
           /\ Len(previousRegions) = k
           /\ ~Awaiting(previousRegions, k)
           /\ \E j \in 1..(k - 1) : Awaiting(previousRegions, j)

\* no region of the stack awaits a start marker
NoneAwaiting(regions) == \A k \in 1..Len(regions) : ~Awaiting(regions, k)

\* line s, already processed, took the start-marker branch and closed no
\* region: no marker range starts on it
UnmatchedStart(s) ==
    /\ s \in Lines
    /\ s > line
    /\ Branch(model, pattern, patternIndent, s) = "start"
    /\ \A i \in Indices : ~(result[i].marker /\ result[i].startLineNumber = s)

\* a start marker that finds no region awaiting emits nothing, pushes nothing
\* and leaves only the sentinel on the stack
UnmatchedStartClearsTheStack ==
    (StartIteration /\ NoneAwaiting(previousRegions)) =>
        /\ result' = result
        /\ previousRegions' = <<previousRegions[1]>>
        /\ previousRegions'[1].indent = -1

\* C24, as stated: a start-marker line processed while no pending region
\* carries an active end marker emits no range, pushes no region and
\* discards every region above the sentinel; consequently no line above it
\* opens a pure-indent range that extends to or beyond the start-marker
\* line.
C24_UnmatchedStartBoundsRangesAbove ==
    /\ [][UnmatchedStartClearsTheStack]_vars
    /\ [](pc = "done" =>
              \A s \in Lines : \A i \in Indices :
                  (UnmatchedStart(s) /\ ~result[i].marker
                   /\ result[i].startLineNumber < s)
                      => result[i].endLineNumber < s)

\* C24, amended: a start marker that finds no region awaiting emits nothing,
\* pushes nothing and leaves only the sentinel on the stack; a pure-indent
\* range opened above it that reaches the start-marker line is bounded by
\* the sentinel alone: it ends on the line before the sentinel's line, which
\* is the last line of the model when offSide is false.
C24_UnmatchedStartLeavesOnlyTheSentinel ==
    /\ [][UnmatchedStartClearsTheStack]_vars
    /\ [][(IndentIteration /\ result' # result) =>
              \A s \in (line + 1)..Top(result').endLineNumber :
                  UnmatchedStart(s) =>
                      /\ Top(result').startLineNumber = line
                      /\ Top(result').endLineNumber = previousRegions[1].line - 1
                      /\ previousRegions' =
                             <<previousRegions[1],
                               PreviousRegion(model[line].indent, line, Null)>>
                      /\ ~offSide => Top(result').endLineNumber = lineCount]_vars

\* a plain indentation line has just pushed a pure-indent range that runs
\* through an unmatched start-marker line
C24_Witness ==
    /\ pc = "loop"
    /\ branch = "indent"
    /\ result # <<>>
    /\ Top(result).startLineNumber = current
    /\ ~Top(result).marker
    /\ \E s \in Lines :
           /\ UnmatchedStart(s)
           /\ current < s
           /\ s < Top(result).endLineNumber

\* line ln takes the end-marker branch
ProcessedAsEnd(ln) == Branch(model, pattern, patternIndent, ln) = "end"

\* line ln takes the start-marker branch
ProcessedAsStart(ln) == Branch(model, pattern, patternIndent, ln) = "start"

\* the (start line, end line) pairs the pass makes among the lines at or
\* below s: a start-marker line takes the nearest end-marker line below it
\* that no start-marker line in between took
RECURSIVE ProcessedPairsFrom(_)
ProcessedPairsFrom(s) ==
    IF s > lineCount THEN {}
    ELSE LET inner == ProcessedPairsFrom(s + 1)
             free == {e \in Lines : e > s /\ ProcessedAsEnd(e)
                                     /\ \A p \in inner : p[2] # e}
         IN  IF ProcessedAsStart(s) /\ free # {}
             THEN inner \cup {<<s, Min(free)>>}
             ELSE inner

\* C25: a pure-indent range holds a line processed as an end marker only if
\* the start-marker line paired with it is inside the range too; an end
\* marker no start marker matches stops every pure-indent range opened above
\* it at the line before it.
C25_EndMarkerBoundsIndentRanges ==
    pc = "done" =>
        \A i \in Indices : \A e \in Lines :
            (~result[i].marker /\ ProcessedAsEnd(e)) =>
                /\ (result[i].startLineNumber <= e /\ e <= result[i].endLineNumber)
                       => \E p \in ProcessedPairsFrom(1) :
                              p[2] = e /\ result[i].startLineNumber <= p[1]
                /\ (result[i].startLineNumber < e
                    /\ \A p \in ProcessedPairsFrom(1) : p[2] # e)
                       => result[i].endLineNumber <= e - 1

\* a pure-indent range was returned that holds a marker pair and ends on the
\* line before an end marker nothing matches
C25_Witness ==
    /\ pc = "done"
    /\ \E i \in Indices :
           /\ ~result[i].marker
           /\ \E p \in ProcessedPairsFrom(1) :
                  result[i].startLineNumber < p[1] /\ p[2] <= result[i].endLineNumber
           /\ result[i].endLineNumber < lineCount
           /\ ProcessedAsEnd(result[i].endLineNumber + 1)
           /\ \A p \in ProcessedPairsFrom(1) : p[2] # result[i].endLineNumber + 1

\* C26: each line is the startLineNumber of at most one returned range: the
\* returned sequence is strictly ascending in startLineNumber, marker and
\* pure-indent ranges alike.
C26_StrictlyAscendingStarts ==
    pc = "done" =>
        \A i, j \in Indices :
            i < j => result[i].startLineNumber < result[j].startLineNumber

\* three ranges were returned, two of them ending on the same line
C26_Witness ==
    /\ pc = "done"
    /\ Len(result) >= 3
    /\ \E i, j \in Indices : i # j /\ result[i].endLineNumber = result[j].endLineNumber

(***************************************************************************)
(* Properties of entering a workspace.                                     *)
(***************************************************************************)
EnterCalls == 1..Len(enterCalls)

\* where call c first did op, 0 if it has not
Position(c, op) ==
    LET at == {i \in 1..Len(serviceCalls[c]) : serviceCalls[c][i] = op}
    IN  IF at = {} THEN 0 ELSE Min(at)

\* what call c did of ops, it did in the order of ops, leaving none out
InOrder(c, ops) ==
    \A k \in 2..Len(ops) :
        Position(c, ops[k]) > 0 =>
            /\ Position(c, ops[k - 1]) > 0
            /\ Position(c, ops[k - 1]) < Position(c, ops[k])

\* C27: stopExtensionHost is called before the main-side request is issued,
\* and startExtensionHost only after the request has resolved and, when it
\* returned a result, after the storage and configuration migration, the
\* backup service's initialize and the workspace's initialize have
\* completed, in that order.
C27_StopFirstStartLast ==
    \A c \in EnterCalls :
        /\ InOrder(c, <<"stopExtensionHost", enterCalls[c].method, "resolved",
                        "startExtensionHost">>)
        /\ Position(c, "stopExtensionHost") > 0
        /\ Position(c, enterCalls[c].method) > 0
        /\ enterCalls[c].result # Null =>
               InOrder(c, <<"resolved", "migrateStorage", "migrateConfiguration",
                            "migrated", "backupFileService.initialize",
                            "workspaceImpl.initialize", "initialized",
                            "startExtensionHost">>)
        /\ enterCalls[c].writing =>
               InOrder(c, <<"migrateConfiguration", "jsonEditingService.write",
                            "migrated">>)

\* two calls were made: one got a workspace and wrote the settings of the
\* folder that was open, the other got no result; both have started the
\* extension host
C27_Witness ==
    /\ Len(enterCalls) = 2
    /\ \A c \in EnterCalls : enterCalls[c].pc = "done"
    /\ \E c, d \in EnterCalls :
           /\ enterCalls[c].result # Null
           /\ enterCalls[c].writing
           /\ enterCalls[d].result = Null
           /\ Position(c, "startExtensionHost") = Len(serviceCalls[c])
           /\ Position(d, "startExtensionHost") = Len(serviceCalls[d])

\* C28: every call that stopped the extension host calls startExtensionHost
\* in the end, whatever the main-side request and the migration come to: a
\* result, no result, or a rejection.  Stated of the calls whose promise
\* has settled.
C28_ExtensionHostStartedAgain ==
    \A c \in EnterCalls :
        (Position(c, "stopExtensionHost") > 0
         /\ enterCalls[c].pc \in {"done", "rejected"})
            => Position(c, "startExtensionHost") > 0

(***************************************************************************)
(* Properties of the searches.                                             *)
(***************************************************************************)
\* the searches started under id that are still running
Running(all, id) ==
    {k \in 1..Len(all) : all[k].requestId = id /\ all[k].state = "running"}

\* the step is a $cancelSearch(id) call
CancelSearchCalled(id) ==
    /\ Len(replies') = Len(replies) + 1
    /\ replies'[Len(replies')].op = "$cancelSearch"
    /\ replies'[Len(replies')].requestId = id

\* C29: for every interleaving of $startSearch, $cancelSearch and search
\* completions, request ids reused while a search is in flight included,
\* _activeSearches holds an entry for an id exactly when a search started
\* under it has neither completed, failed nor been cancelled; $cancelSearch
\* on such an id cancels that search, removes the entry and resolves to
\* true, on any other id it returns undefined and changes nothing.
C29_ActiveSearchesAreTheRunningOnes ==
    /\ [](\A id \in RequestIds :
              activeSearches[id] # Null <=> Running(searches, id) # {})
    /\ [][\A id \in RequestIds :
              CancelSearchCalled(id) =>
                  IF Running(searches, id) # {}
                  THEN /\ Running(searches', id) = {}
                       /\ activeSearches'[id] = Null
                       /\ replies'[Len(replies')].value = <<TRUE>>
                  ELSE /\ replies'[Len(replies')].value = Null
                       /\ UNCHANGED <<searches, activeSearches>>]_vars

(***************************************************************************)
(* Properties of the relauncher.                                           *)
(***************************************************************************)
\* the listener is bound exactly when the workbench state is WORKSPACE
BoundIffWorkspace == folderListeners # {} <=> workbenchState = "WORKSPACE"

\* C30: after every execution of handleWorkbenchState the workspace folder
\* change listener is bound exactly when the workbench state read at that
\* moment is WORKSPACE, and at most one such listener is bound at any time,
\* for any sequence of workbench state changes whose handlers run deferred
\* and possibly after further state changes.
C30_ListenerBoundIffWorkspace ==
    /\ BoundIffWorkspace
    /\ [][HandleDeferred => BoundIffWorkspace']_vars
    /\ [](Cardinality(folderListeners) <= 1)

SettingsOf(config) ==
    TrackedSettings(
        IF config.window = Null THEN Null ELSE config.window[1].titleBarStyle,
        IF config.window = Null THEN Null ELSE config.window[1].nativeTabs,
        IF config.update = Null THEN Null ELSE config.update[1].channel,
        IF config.telemetry = Null THEN Null
        ELSE config.telemetry[1].enableCrashReporter)

\* C32: a confirmation is asked for only by a configuration-update event
\* whose configuration differs from the recorded values in one of the four
\* tracked settings; the dialog is shown only when the focus query of such
\* an event resolves with the window focused, so there are never more
\* dialogs shown or awaited than update events, and none after the
\* constructor's initial read alone; windowsService.relaunch is called only
\* in the step in which the user confirms the dialog.
C32_ConfirmOnlyOnChangedSetting ==
    /\ [][focusQueries' > focusQueries =>
              \E config \in Configurations :
                  /\ UpdateConfiguration(config)
                  /\ SettingsOf(config) # CurrentTracked]_vars
    /\ [][confirms' # confirms =>
              \E confirmed \in BOOLEAN : FocusResolves(TRUE, confirmed)]_vars
    /\ [][relaunches' # relaunches =>
              FocusResolves(TRUE, TRUE) /\ confirms' = confirms + 1]_vars
    /\ [](/\ confirms + focusQueries <= configurationUpdates
          /\ relaunches <= confirms)

\* two update events changed a tracked setting; one dialog was shown, the
\* user confirmed it and the window was relaunched; the other event found
\* the window without the focus
C32_Witness ==
    /\ configurationUpdates = 2
    /\ focusQueries = 0
    /\ confirms = 1
    /\ relaunches = 1
    /\ titleBarStyle = <<"custom">>
    /\ updateChannel = <<"insiders">>
    /\ nativeTabs = Null
    /\ enableCrashReporter = Null

(***************************************************************************)
(* What addFolders writes.                                                 *)
(***************************************************************************)
\* the requested folders that are not folders of the workspace
NewFolders(foldersToAdd) ==
    {foldersToAdd[i] : i \in {j \in 1..Len(foldersToAdd) :
        ~contains(Map(workspaceFolders, LAMBDA folder : folder.uri),
                  foldersToAdd[j], isLinux)}}

\* the written list is the stored folders of the workspace, in order,
\* followed by entries for the new folders, all of them
StoredThenNew(written, foldersToAdd) ==
    /\ Len(written) > Len(workspaceFolders)
    /\ SubSeq(written, 1, Len(workspaceFolders))
           = Map(workspaceFolders, LAMBDA folder : folder.raw)
    /\ {written[i] : i \in Len(workspaceFolders) + 1..Len(written)}
           = {StoredFolder(uri) : uri \in NewFolders(foldersToAdd)}

NoUriTwice(written) ==
    \A i, j \in 1..Len(written) : written[i].of = written[j].of => i = j

\* C33: addFolders writes the folder list only when the workbench is in
\* WORKSPACE state, the build is not stable and one of the requested
\* folders is not a folder of the workspace; what it writes is the stored
\* folders, unchanged and in order, followed by the new folders, and holds
\* no folder URI twice; otherwise it writes nothing.
C33_AddFoldersAppendsNewFoldersOnce ==
    \A k \in 1..Len(addFoldersCalls) :
        LET call == addFoldersCalls[k] IN
        /\ call.written # Null <=>
               /\ workbenchState = "WORKSPACE"
               /\ appQuality # "stable"
               /\ NewFolders(call.foldersToAdd) # {}
        /\ call.written # Null =>
               /\ StoredThenNew(call.written[1], call.foldersToAdd)
               /\ NoUriTwice(call.written[1])

(***************************************************************************)
(* The tasks the jake extension provides.                                  *)
(***************************************************************************)
\* C34: whatever Jakefile events came before it, a TaskDetector.getTasks()
\* call returns for every detected folder the tasks of the Jakefile as it
\* is at the call, not a list computed before the folder's last event.
C34_GetTasksRecomputesAfterJakefileEvent ==
    [][ProvideTasks =>
          \A folder \in detectors :
              provided'[Len(provided')][folder] = jakefile[folder]]_vars

(***************************************************************************)
(* The progress runner of DebugViewlet.                                    *)
(***************************************************************************)
\* the runners on which done() was not called
Outstanding == {id \in 1..Len(runners) : runners[id] = 0}

\* C35: after any sequence of debug-service state changes a progress runner
\* is held exactly when the most recent state is Initializing; the runner
\* held is the only one without a done() call, every other runner shown
\* has had done() called exactly once, and a state change leaves every
\* runner shown before it with its one done() call.
C35_RunnerHeldWhileInitializing ==
    /\ [](/\ progressRunner # Null <=>
                 /\ debugStates # <<>>
                 /\ debugStates[Len(debugStates)] = "Initializing"
          /\ Outstanding = Bound(progressRunner)
          /\ \A id \in 1..Len(runners) : runners[id] <= 1)
    /\ [][debugStates' # debugStates =>
              \A id \in 1..Len(runners) : runners'[id] = 1]_vars

\* Initializing, Initializing, Running, Initializing: three runners shown,
\* two of them done, the third held
C35_Witness ==
    /\ Len(runners) = 3
    /\ progressRunner = <<3>>
    /\ Len(debugStates) = 4
    /\ debugStates[1] = "Initializing"
    /\ debugStates[2] = "Initializing"

(***************************************************************************)
(* What ViewsViewlet.movePanel leaves.                                     *)
(***************************************************************************)
InList(view) == \E i \in 1..Len(viewsViewletPanels) : viewsViewletPanels[i] = view

Without(panels, view) == SelectSeq(panels, LAMBDA panel : panel # view)

\* C36: movePanel(from, to) with both panels in the list leaves `from` at
\* the index `to` had and the other panels in the order they were in, and
\* every panel of the list with a stored order equal to its index; with
\* one of the two not in the list it leaves the list and the view states
\* as they were.
C36_MovePanelReorders ==
    [][\A from, to \in Views :
          MovePanel(from, to) =>
              IF InList(from) /\ InList(to)
              THEN /\ viewsViewletPanels'[firstIndex(viewsViewletPanels, to) + 1] = from
                   /\ Without(viewsViewletPanels', from)
                          = Without(viewsViewletPanels, from)
                   /\ Len(viewsViewletPanels') = Len(viewsViewletPanels)
                   /\ \A i \in 1..Len(viewsViewletPanels') :
                          viewsStates'[viewsViewletPanels'[i]] = <<i - 1>>
              ELSE UNCHANGED <<viewsViewletPanels, viewsStates>>]_vars

(***************************************************************************)
(* The depth of the stack of pending regions.                              *)
(***************************************************************************)
\* the indent levels of the lines the pass has been through, blank lines
\* apart
ProcessedIndents ==
    {model[ln].indent : ln \in {l \in line + 1..lineCount : ~Blank(l)}}

\* C37: without markers, at every step of the pass the pending regions have,
\* from the sentinel at the bottom to the top, strictly increasing indent
\* and strictly decreasing line, and there are at most one more of them
\* than there are distinct indent levels among the lines processed so far.
C37_StackStrictlyIncreasingIndent ==
    (markers = Null /\ pc \in {"loop", "done"}) =>
        /\ \A k \in 1..Len(previousRegions) - 1 :
               /\ previousRegions[k].indent < previousRegions[k + 1].indent
               /\ previousRegions[k].line > previousRegions[k + 1].line
        /\ Len(previousRegions) <= 1 + Cardinality(ProcessedIndents)

\* a model of five lines with lines 2 to 5 processed, lines 3 and 4 of one
\* indent: two indent levels were seen and the stack holds the sentinel and
\* a region for each of them
C37_Witness ==
    /\ markers = Null
    /\ pc = "loop"
    /\ lineCount = 5
    /\ line = 1
    /\ Len(previousRegions) = 3
    /\ Cardinality(ProcessedIndents) = 2
    /\ model[3].indent = model[4].indent

====
